---- MODULE Spec2Model ----
(***************************************************************************)
(* Model of print_random_art.py: the generative-art compositor, the print  *)
(* preparation pipeline and the ESC/POS transmission engine.               *)
(*                                                                         *)
(* Images are records [w, rows]: w is the width, rows the sequence of      *)
(* pixel rows from top to bottom, each a sequence of w pixel values        *)
(* (0 = black, 255 = white, as PIL reports them in modes "1" and "L").     *)
(* Sequences are 1-based: pixel (x, y) of the code is rows[y+1][x+1].      *)
(***************************************************************************)
EXTENDS Integers, Sequences, FiniteSets

(***************************************************************************)
(* Bounds of the model.                                                    *)
(***************************************************************************)
MaxW == 3           \* widest grayscale input of prep_for_printer
MaxH == 4           \* tallest grayscale input of prep_for_printer
MaxSendW == 9       \* widest image given to send_image_escpos
MaxSendH == 2       \* tallest image given to send_image_escpos
MaxChunk == 2       \* largest rows_per_chunk
MaxSendTall == 5    \* tallest image, one column wide, given to send_image_escpos
MaxTrimW == 2       \* widest image given to _trim_bands_tb on its own
MaxTrimH == 5       \* tallest image given to _trim_bands_tb on its own
MaxRatioNum == 5    \* max_ratio ranges over 0/4 .. MaxRatioNum/4
MaxMazeDim == 5     \* largest number of rows or columns of the maze grid
MaxSeed == 15       \* largest seed given to generate_image
MaxPickLen == 3     \* longest item list given to weighted_pick on its own
MaxPickWeight == 2  \* largest weight (in hundredths) in those calls
MaxSessions == 2    \* iterations of the kiosk's session loop

\* LM_MIN_FINAL_ROWS as set in the environment of the modelled runs (the code
\* reads it with int(os.getenv(...)); 900 when unset)
MIN_FINAL_ROWS == 3

\* the printer's width in dots, which main passes as target_width and max_width
PRINTER_DOTS == 512

VARIABLES
    p_pc,           \* position inside prep_for_printer
    p_in,           \* its arguments: size of img_gray, max_width, margins
    img_gray,       \* prep_for_printer: the levelled grayscale image
    img_1,          \* prep_for_printer: the 1-bit image being prepared
    fell_back,      \* TRUE once the near-uniform fallback branch was taken
    pre_final,      \* img_1 as it was when the minimum-height step began
    s_pc,           \* position inside send_image_escpos
    img_1bit,       \* send_image_escpos: the image to send
    rows_per_chunk, \* send_image_escpos: its band height argument
    s_y,            \* send_image_escpos: the row cursor y
    sock,           \* the socket s: "none", "open" or "closed"
    s_err,          \* TRUE while a socket error propagates through finally
    trace,          \* what the call did with the socket, and its sleeps, in order
    t_pc,           \* position of the stand-alone _trim_bands_tb call
    t_img,          \* its argument img_1
    t_ratio,        \* its argument max_ratio, as <<numerator, denominator>>
    t_box,          \* the rows <<top, bottom>> it kept
    t_out,          \* the image it returned
    m_pc,           \* position inside gen_maze
    m_dims,         \* gen_maze: <<rows, cols>>
    m_start,        \* gen_maze: <<r0, c0>>
    grid,           \* gen_maze: the cells whose grid value is 1
    visited,        \* gen_maze: the cells whose visited value is True
    stack,          \* gen_maze: the DFS stack
    g_in,           \* generate_image: its arguments variant, seed, target_width
    WEIGHTS_BASE,   \* module-level weight table of the base variant
    WEIGHTS_ALT,    \* module-level weight table of the extra layers
    g_run,          \* the two independent runs "A" and "B" of generate_image
    k_pc,           \* position of the stand-alone weighted_pick call
    k_items,        \* its argument items
    k_weights,      \* its argument weights
    k_u,            \* the next draw of its argument rng
    k_out,          \* the item it returned
    q_pc,           \* main_sequence: the screen the session loop is at
    q_iter,         \* main_sequence: the iteration of "while True"
    name_caps,      \* main_sequence: its local name_caps
    assigned_trait, \* main_sequence: its local assigned_trait
    archetype_caps, \* main_sequence: its local archetype_caps
    q_hist,         \* per iteration: what the screens returned, the last screen
    jobs,           \* the print worker threads started so far
    q_stdout,       \* what the kiosk printed
    x_run,          \* the two runs "A" and "B" of the print program's main
    log_file,       \* the lines of LOG_FILE
    hd_in,          \* the band header block: its locals bytes_per_row, band_h
    hd_out          \* the header it built, <<>> before

kvars == <<k_pc, k_items, k_weights, k_u, k_out>>

qvars == <<q_pc, q_iter, name_caps, assigned_trait, archetype_caps, q_hist, jobs, q_stdout>>

xvars == <<x_run, log_file>>

hvars == <<hd_in, hd_out>>

gvars == <<g_in, WEIGHTS_BASE, WEIGHTS_ALT, g_run>>

tvars == <<t_pc, t_img, t_ratio, t_box, t_out>>

mvars == <<m_pc, m_dims, m_start, grid, visited, stack>>

svars == <<s_pc, img_1bit, rows_per_chunk, s_y, sock, s_err, trace>>

pvars == <<p_pc, p_in, img_gray, img_1, fell_back, pre_final>>

(***************************************************************************)
(* Pixel values and small arithmetic helpers.                              *)
(***************************************************************************)
BLACK == 0
MID == 128
WHITE == 255

Min(a, b) == IF a < b THEN a ELSE b

Height(img) == Len(img.rows)

NoImage == [w |-> 0, rows |-> <<>>]

\* Image.new(mode, (w, h), colour)
NewImage(w, h, colour) == [w |-> w, rows |-> [y \in 1..h |-> [x \in 1..w |-> colour]]]

\* dst.paste(src, (ox, oy)) for a src that fits inside dst
Paste(dst, src, ox, oy) ==
    [w |-> dst.w,
     rows |-> [y \in 1..Height(dst) |->
                [x \in 1..dst.w |->
                    IF /\ y - oy \in 1..Height(src)
                       /\ x - ox \in 1..src.w
                    THEN src.rows[y - oy][x - ox]
                    ELSE dst.rows[y][x]]]]

\* img.crop((left, top, right, bottom)) for a box inside the image
Crop(img, left, top, right, bottom) ==
    [w |-> right - left,
     rows |-> [y \in 1..(bottom - top) |->
                [x \in 1..(right - left) |-> img.rows[y + top][x + left]]]]

\* number of pixels of value v in a row
RECURSIVE CountInRow(_, _, _)
CountInRow(row, v, n) ==
    IF n = 0 THEN 0
    ELSE (IF row[n] = v THEN 1 ELSE 0) + CountInRow(row, v, n - 1)

RECURSIVE CountInRows(_, _, _)
CountInRows(rows, v, n) ==
    IF n = 0 THEN 0
    ELSE CountInRow(rows[n], v, Len(rows[n])) + CountInRows(rows, v, n - 1)

\* number of white pixels of a 1-bit image; ImageStat.Stat(img).mean[0] / 255
\* is WhiteCount / (w * h)
WhiteCount(img) == CountInRows(img.rows, WHITE, Height(img))
PixelCount(img) == img.w * Height(img)

(***************************************************************************)
(* _crop_whitespace_lr                                                     *)
(***************************************************************************)
\* any(px[x, y] < 250 for y in range(h)), x being the 0-based column
ColumnHasInk(img, x) == \E y \in 1..Height(img) : img.rows[y][x + 1] < 250

\* for x in range(w): if ColumnHasInk: left = x; break  (left stays 0 otherwise)
RECURSIVE ScanLeft(_, _)
ScanLeft(img, x) ==
    IF x >= img.w THEN 0
    ELSE IF ColumnHasInk(img, x) THEN x
    ELSE ScanLeft(img, x + 1)

\* for x in range(w-1, -1, -1): if ColumnHasInk: right = x; break
RECURSIVE ScanRight(_, _)
ScanRight(img, x) ==
    IF x < 0 THEN img.w - 1
    ELSE IF ColumnHasInk(img, x) THEN x
    ELSE ScanRight(img, x - 1)

_crop_whitespace_lr(img) ==
    LET left == ScanLeft(img, 0)
        right == ScanRight(img, img.w - 1)
    IN  IF right <= left THEN img
        ELSE Crop(img, left, 0, right + 1, Height(img))

(***************************************************************************)
(* _trim_bands_tb.  Fractions are passed as numerator/denominator pairs:   *)
(* black_frac = bfN/bfD, white_frac = wfN/wfD, max_ratio = mrN/mrD.        *)
(***************************************************************************)
\* bf >= black_frac or wf >= white_frac, for the 0-based row y
RowTrimmable(img, y, bfN, bfD, wfN, wfD) ==
    LET nblack == img.w - CountInRow(img.rows[y + 1], WHITE, img.w)
        nwhite == img.w - nblack
    IN  \/ nblack * bfD >= bfN * img.w
        \/ nwhite * wfD >= wfN * img.w

RECURSIVE TrimTopScan_NoCap(_, _, _, _, _, _, _, _)
TrimTopScan_NoCap(img, y, top, max_trim, bfN, bfD, wfN, wfD) ==
    IF y >= Height(img) THEN top
    ELSE IF RowTrimmable(img, y, bfN, bfD, wfN, wfD)
         THEN TrimTopScan_NoCap(img, y + 1, y + 1, max_trim, bfN, bfD, wfN, wfD)
         ELSE top

\* the top loop, from row y with the current value of top
RECURSIVE TrimTopScan(_, _, _, _, _, _, _, _)
TrimTopScan(img, y, top, max_trim, bfN, bfD, wfN, wfD) ==
    IF y >= Height(img) THEN top
    ELSE IF y >= max_trim THEN top
    ELSE IF RowTrimmable(img, y, bfN, bfD, wfN, wfD)
         THEN TrimTopScan(img, y + 1, y + 1, max_trim, bfN, bfD, wfN, wfD)
         ELSE top

\* the bottom loop going on past a row that is not trimmable
RECURSIVE TrimBottomScan_GoOn(_, _, _, _, _, _, _, _)
TrimBottomScan_GoOn(img, y, bottom, max_trim, bfN, bfD, wfN, wfD) ==
    IF y < 0 THEN bottom
    ELSE IF (Height(img) - 1 - y) >= max_trim THEN bottom
    ELSE IF RowTrimmable(img, y, bfN, bfD, wfN, wfD)
         THEN TrimBottomScan_GoOn(img, y - 1, y, max_trim, bfN, bfD, wfN, wfD)
         ELSE TrimBottomScan_GoOn(img, y - 1, bottom, max_trim, bfN, bfD, wfN, wfD)

\* the bottom loop, from row y with the current value of bottom
RECURSIVE TrimBottomScan(_, _, _, _, _, _, _, _)
TrimBottomScan(img, y, bottom, max_trim, bfN, bfD, wfN, wfD) ==
    IF y < 0 THEN bottom
    ELSE IF (Height(img) - 1 - y) >= max_trim THEN bottom
    ELSE IF RowTrimmable(img, y, bfN, bfD, wfN, wfD)
         THEN TrimBottomScan(img, y - 1, y, max_trim, bfN, bfD, wfN, wfD)
         ELSE bottom

\* max_trim = int(h * max_ratio), for max_ratio >= 0
MaxTrim(h, mrN, mrD) == (h * mrN) \div mrD

TrimTop(img, bfN, bfD, wfN, wfD, mrN, mrD) ==
    TrimTopScan(img, 0, 0, MaxTrim(Height(img), mrN, mrD), bfN, bfD, wfN, wfD)

TrimBottom(img, bfN, bfD, wfN, wfD, mrN, mrD) ==
    TrimBottomScan(img, Height(img) - 1, Height(img),
                   MaxTrim(Height(img), mrN, mrD), bfN, bfD, wfN, wfD)

_trim_bands_tb(img, bfN, bfD, wfN, wfD, mrN, mrD) ==
    LET top == TrimTop(img, bfN, bfD, wfN, wfD, mrN, mrD)
        bottom == TrimBottom(img, bfN, bfD, wfN, wfD, mrN, mrD)
    IN  IF bottom <= top THEN img
        ELSE Crop(img, 0, top, img.w, bottom)

\* the rows [top, bottom) of the argument that the returned image holds
TrimBox(img, bfN, bfD, wfN, wfD, mrN, mrD) ==
    LET top == TrimTop(img, bfN, bfD, wfN, wfD, mrN, mrD)
        bottom == TrimBottom(img, bfN, bfD, wfN, wfD, mrN, mrD)
    IN  IF bottom <= top THEN <<0, Height(img)>> ELSE <<top, bottom>>

\* the defaults of _trim_bands_tb, which prep_for_printer also passes
TrimDefault(img) == _trim_bands_tb(img, 97, 100, 997, 1000, 25, 100)

(***************************************************************************)
(* prep_for_printer.  The PIL calls that compute pixel values (resize,     *)
(* _auto_levels, Floyd-Steinberg dithering) are modelled by their effect   *)
(* on the size and by the set of pixel patterns they can yield: a pure     *)
(* black or pure white gray pixel keeps its tone through levelling and     *)
(* dithering, a mid-gray one may come out black or white.                  *)
(***************************************************************************)
SolidRow(w, v) == [x \in 1..w |-> v]
DotRow(w, p) == [x \in 1..w |-> IF x = p THEN BLACK ELSE WHITE]

\* the 1-bit rows the model enumerates: white, black, one black dot
BitRows(w) == {SolidRow(w, WHITE), SolidRow(w, BLACK)} \cup {DotRow(w, p) : p \in 1..w}
\* the gray rows the model enumerates: the same, and white with a mid-gray
\* first pixel
GrayRows(w) == BitRows(w) \cup {[x \in 1..w |-> IF x = 1 THEN MID ELSE WHITE]}

GrayImages(w, h) == {[w |-> w, rows |-> r] : r \in [1..h -> GrayRows(w)]}

\* img.convert("1", dither=Image.FLOYDSTEINBERG), also after a further
\* _auto_levels: the outcomes for one row
DitherRow(row) ==
    {r \in [1..Len(row) -> {BLACK, WHITE}] :
        \A x \in 1..Len(row) : row[x] # MID => r[x] = row[x]}

\* the outcomes for the first n rows
RECURSIVE DitherRows(_, _)
DitherRows(rows, n) ==
    IF n = 0 THEN {<<>>}
    ELSE {Append(above, r) : above \in DitherRows(rows, n - 1), r \in DitherRow(rows[n])}

Dither(img) == {[w |-> img.w, rows |-> r] : r \in DitherRows(img.rows, Height(img))}

\* new_h = int(h * (max_width / w)) when w != max_width
ResizedHeight(w, h, max_width) ==
    IF w # max_width THEN (h * max_width) \div w ELSE h

\* the "add margins" block
AddMargins(img, margin_px, margin_tb) ==
    IF margin_px > 0 \/ margin_tb > 0
    THEN Paste(NewImage(img.w + margin_px * 2, Height(img) + margin_tb * 2, WHITE),
               img, margin_px, margin_tb)
    ELSE img

\* the "ensure width multiple of 8" block
PadWidth8(img) ==
    LET pad == (8 - (img.w % 8)) % 8
    IN  IF pad # 0
        THEN Paste(NewImage(img.w + pad, Height(img), WHITE), img, 0, 0)
        ELSE img

\* white_fraction > 0.98 or white_fraction < 0.02
NearUniform(img) ==
    \/ WhiteCount(img) * 100 > 98 * PixelCount(img)
    \/ WhiteCount(img) * 100 < 2 * PixelCount(img)

EnforceMinHeight_PadTop(img) ==
    IF Height(img) < MIN_FINAL_ROWS
    THEN Paste(NewImage(img.w, Height(img) + (MIN_FINAL_ROWS - Height(img)), WHITE),
               img, 0, MIN_FINAL_ROWS - Height(img))
    ELSE img

\* the "enforce minimum final height" block
EnforceMinHeight(img) ==
    IF Height(img) < MIN_FINAL_ROWS
    THEN Paste(NewImage(img.w, Height(img) + (MIN_FINAL_ROWS - Height(img)), WHITE),
               img, 0, 0)
    ELSE img

\* scale to width, levels + midtone target
PrepLevel ==
    /\ p_pc = "start"
    /\ \E g \in GrayImages(p_in.max_width,
                            ResizedHeight(p_in.w, p_in.h, p_in.max_width)) :
            img_gray' = g
    /\ p_pc' = "dither"
    /\ UNCHANGED <<p_in, img_1, fell_back, pre_final>>

\* dither to 1-bit, trim and crop, add margins, pad the width
PrepFirstPass ==
    /\ p_pc = "dither"
    /\ \E d \in Dither(img_gray) :
            img_1' = PadWidth8(AddMargins(_crop_whitespace_lr(TrimDefault(d)),
                                          p_in.margin_px, p_in.margin_tb))
    /\ p_pc' = "check"
    /\ UNCHANGED <<p_in, img_gray, fell_back, pre_final>>

\* the fallback repeated until the image passes the check
PrepSelfCheck_Recheck ==
    /\ p_pc = "check"
    /\ IF NearUniform(img_1)
       THEN /\ \E d \in Dither(img_gray) :
                    img_1' = _crop_whitespace_lr(TrimDefault(d))
            /\ fell_back' = TRUE
            /\ p_pc' = "check"
       ELSE /\ UNCHANGED <<img_1, fell_back>>
            /\ p_pc' = "minheight"
    /\ UNCHANGED <<p_in, img_gray, pre_final>>

\* sanity fallback if almost uniform
PrepSelfCheck ==
    /\ p_pc = "check"
    /\ IF NearUniform(img_1)
       THEN /\ \E d \in Dither(img_gray) :
                    img_1' = _crop_whitespace_lr(TrimDefault(d))
            /\ fell_back' = TRUE
       ELSE UNCHANGED <<img_1, fell_back>>
    /\ p_pc' = "minheight"
    /\ UNCHANGED <<p_in, img_gray, pre_final>>

\* enforce minimum final height, return img_1
PrepMinHeight ==
    /\ p_pc = "minheight"
    /\ pre_final' = img_1
    /\ img_1' = EnforceMinHeight(img_1)
    /\ p_pc' = "done"
    /\ UNCHANGED <<p_in, img_gray, fell_back>>

\* the margins the model passes: none, and the defaults
MarginChoices == {<<0, 0>>, <<8, 6>>}

\* a call prep_for_printer(img_gray, max_width, margin_px=.., margin_tb=..)
\* with an image of max_width or of twice max_width
PrepInit ==
    /\ p_pc = "start"
    /\ \E mw \in 1..MaxW, k \in 1..2, h \in 1..MaxH, m \in MarginChoices :
            /\ ResizedHeight(k * mw, h, mw) >= 1
            /\ p_in = [w |-> k * mw, h |-> h, max_width |-> mw,
                       margin_px |-> m[1], margin_tb |-> m[2]]
    /\ img_gray = NoImage
    /\ img_1 = NoImage
    /\ fell_back = FALSE
    /\ pre_final = NoImage

PrepIdle ==
    /\ p_pc = "idle"
    /\ p_in = [w |-> 0, h |-> 0, max_width |-> 0, margin_px |-> 0, margin_tb |-> 0]
    /\ img_gray = NoImage
    /\ img_1 = NoImage
    /\ fell_back = FALSE
    /\ pre_final = NoImage


(***************************************************************************)
(* send_image_escpos.  trace records, in order, every call the function    *)
(* makes on the socket and every time.sleep: records with op "settimeout", *)
(* "connect", "write", "sleep" or "close"; ok tells whether the call        *)
(* returned (TRUE) or raised a socket error (FALSE); a write carries the   *)
(* bytes handed to sendall.                                                *)
(***************************************************************************)
ESC_INIT == <<27, 64>>
ESC_2 == <<27, 50>>
GS_INVERT_OFF == <<29, 66, 0>>
GS_PARTIAL_CUT == <<29, 86, 1>>
GS_FULL_CUT == <<29, 86, 0>>
GS_V_0 == <<29, 118, 48, 0>>
LF3 == <<10, 10, 10>>

RECURSIVE Pow2(_)
Pow2(n) == IF n = 0 THEN 1 ELSE 2 * Pow2(n - 1)

BytesPerRow_Floor(w) == w \div 8

\* bytes_per_row = (w + 7) // 8
BytesPerRow(w) == (w + 7) \div 8

BitMask_LsbFirst(x) == Pow2(x % 8)

\* byte |= (1 << (7 - (x % 8))): the bit is clear before, so | adds
BitMask(x) == Pow2(7 - (x % 8))

\* the inner loops over x of "pack bits", from column x with the byte so far
RECURSIVE PackRowFrom(_, _, _, _)
PackRowFrom(row, x, byte, out) ==
    IF x >= Len(row)
    THEN IF (Len(row) % 8) # 0 THEN Append(out, byte) ELSE out
    ELSE LET b == IF row[x + 1] < 128 THEN byte + BitMask(x) ELSE byte
         IN  IF (x % 8) = 7
             THEN PackRowFrom(row, x + 1, 0, Append(out, b))
             ELSE PackRowFrom(row, x + 1, b, out)

PackRow(row) == PackRowFrom(row, 0, 0, <<>>)

\* band_data for the rows yy = 0..n-1 of the band that starts at row y0
RECURSIVE PackBand(_, _, _)
PackBand(img, y0, n) ==
    IF n = 0 THEN <<>>
    ELSE PackBand(img, y0, n - 1) \o PackRow(img.rows[y0 + n])

\* the size fields written high byte first
BandHeader_BigEndian(bytes_per_row, band_h) ==
    GS_V_0 \o <<(bytes_per_row \div 256) % 256, bytes_per_row % 256,
                (band_h \div 256) % 256, band_h % 256>>

\* header = b"\x1D\x76\x30\x00" + bytes([xL, xH, yL, yH])
BandHeader(bytes_per_row, band_h) ==
    GS_V_0 \o <<bytes_per_row % 256, (bytes_per_row \div 256) % 256,
                band_h % 256, (band_h \div 256) % 256>>

\* number of black pixels of rows y0+1 .. y0+n, for darkness = 1 - mean/255
BandBlack(img, y0, n) ==
    n * img.w - CountInRows(SubSeq(img.rows, y0 + 1, y0 + n), WHITE, n)

SockOp(op, ok) == [op |-> op, ok |-> ok]
WriteOp(kind, ok, data) == [op |-> "write", ok |-> ok, kind |-> kind, data |-> data]
BandOp(ok, row, data) ==
    [op |-> "write", ok |-> ok, kind |-> "band", row |-> row, data |-> data]
\* the default of the parameter base_sleep, 0.015 s, in microseconds
base_sleep == 15000

\* a pause that grows with the whiteness of the band
Pause_Whiteness(black, total) == base_sleep + (60000 * (total - black)) \div total

\* pause = base_sleep + (0.06 * darkness) in whole microseconds, darkness
\* being 1 - mean/255 = black / total for a 1-bit band of total pixels
Pause(black, total) == base_sleep + (60000 * black) \div total

\* time.sleep(pause)
SleepOp(black, total) ==
    [op |-> "sleep", ok |-> TRUE, black |-> black, total |-> total,
     pause |-> Pause(black, total)]

\* the connect attempted while the socket still blocks without limit
SendConnect_TimeoutAfter ==
    /\ s_pc = "connect"
    /\ \E ok \in BOOLEAN :
        /\ trace' = trace \o <<SockOp("connect", ok), SockOp("settimeout", TRUE)>>
        /\ s_pc' = IF ok THEN "init" ELSE "raised"
    /\ sock' = "open"
    /\ UNCHANGED <<img_1bit, rows_per_chunk, s_y, s_err>>

\* s = socket.socket(...); s.settimeout(sock_timeout); s.connect((ip, port))
\* A refused or timed-out connect raises before the try block is entered.
SendConnect ==
    /\ s_pc = "connect"
    /\ \E ok \in BOOLEAN :
        /\ trace' = trace \o <<SockOp("settimeout", TRUE), SockOp("connect", ok)>>
        /\ s_pc' = IF ok THEN "init" ELSE "raised"
    /\ sock' = "open"
    /\ UNCHANGED <<img_1bit, rows_per_chunk, s_y, s_err>>

\* an error of the first write swallowed, the loop entered all the same
SendInitSeq_Swallow ==
    /\ s_pc = "init"
    /\ \E ok \in BOOLEAN :
        /\ trace' = Append(trace, WriteOp("init", ok, ESC_INIT \o ESC_2 \o GS_INVERT_OFF))
        /\ s_pc' = "band"
        /\ s_err' = FALSE
    /\ s_y' = 0
    /\ UNCHANGED <<img_1bit, rows_per_chunk, sock>>

\* s.sendall(ESC_INIT + ESC_2 + GS_INVERT_OFF); y = 0
SendInitSeq ==
    /\ s_pc = "init"
    /\ \E ok \in BOOLEAN :
        /\ trace' = Append(trace, WriteOp("init", ok, ESC_INIT \o ESC_2 \o GS_INVERT_OFF))
        /\ s_pc' = IF ok THEN "band" ELSE "close"
        /\ s_err' = ~ok
    /\ s_y' = 0
    /\ UNCHANGED <<img_1bit, rows_per_chunk, sock>>

SendBand_Retry ==
    /\ s_pc = "band"
    /\ s_y < Height(img_1bit)
    /\ LET band_h == Min(rows_per_chunk, Height(img_1bit) - s_y)
           band_data == PackBand(img_1bit, s_y, band_h)
           header == BandHeader(BytesPerRow(img_1bit.w), band_h)
       IN  \E ok \in BOOLEAN :
            IF ok
            THEN /\ trace' = trace \o <<BandOp(TRUE, s_y, header \o band_data),
                                        SleepOp(BandBlack(img_1bit, s_y, band_h),
                                                band_h * img_1bit.w)>>
                 /\ s_y' = s_y + band_h
                 /\ UNCHANGED <<s_pc, s_err>>
            ELSE /\ Len(trace) < 8
                 /\ trace' = Append(trace, BandOp(FALSE, s_y, header \o band_data))
                 /\ UNCHANGED <<s_pc, s_err, s_y>>
    /\ UNCHANGED <<img_1bit, rows_per_chunk, sock>>

\* the cursor left where it was after a band
SendBand_Stall ==
    /\ s_pc = "band"
    /\ s_y < Height(img_1bit)
    /\ LET band_h == Min(rows_per_chunk, Height(img_1bit) - s_y)
           band_data == PackBand(img_1bit, s_y, band_h)
           header == BandHeader(BytesPerRow(img_1bit.w), band_h)
       IN  \E ok \in BOOLEAN :
            IF ok
            THEN /\ Len(trace) < 8
                 /\ trace' = trace \o <<BandOp(TRUE, s_y, header \o band_data),
                                        SleepOp(BandBlack(img_1bit, s_y, band_h),
                                                band_h * img_1bit.w)>>
                 /\ UNCHANGED <<s_y, s_pc, s_err>>
            ELSE /\ trace' = Append(trace, BandOp(FALSE, s_y, header \o band_data))
                 /\ s_pc' = "close"
                 /\ s_err' = TRUE
                 /\ UNCHANGED s_y
    /\ UNCHANGED <<img_1bit, rows_per_chunk, sock>>

\* the cursor moved one row too far after each band
SendBand_SkipRow ==
    /\ s_pc = "band"
    /\ s_y < Height(img_1bit)
    /\ LET band_h == Min(rows_per_chunk, Height(img_1bit) - s_y)
           band_data == PackBand(img_1bit, s_y, band_h)
           header == BandHeader(BytesPerRow(img_1bit.w), band_h)
       IN  \E ok \in BOOLEAN :
            IF ok
            THEN /\ trace' = trace \o <<BandOp(TRUE, s_y, header \o band_data),
                                        SleepOp(BandBlack(img_1bit, s_y, band_h),
                                                band_h * img_1bit.w)>>
                 /\ s_y' = s_y + band_h + 1
                 /\ UNCHANGED <<s_pc, s_err>>
            ELSE /\ trace' = Append(trace, BandOp(FALSE, s_y, header \o band_data))
                 /\ s_pc' = "close"
                 /\ s_err' = TRUE
                 /\ UNCHANGED s_y
    /\ UNCHANGED <<img_1bit, rows_per_chunk, sock>>

\* one iteration of "while y < h"
SendBand ==
    /\ s_pc = "band"
    /\ s_y < Height(img_1bit)
    /\ LET band_h == Min(rows_per_chunk, Height(img_1bit) - s_y)
           band_data == PackBand(img_1bit, s_y, band_h)
           header == BandHeader(BytesPerRow(img_1bit.w), band_h)
       IN  \E ok \in BOOLEAN :
            IF ok
            THEN /\ trace' = trace \o <<BandOp(TRUE, s_y, header \o band_data),
                                        SleepOp(BandBlack(img_1bit, s_y, band_h),
                                                band_h * img_1bit.w)>>
                 /\ s_y' = s_y + band_h
                 /\ UNCHANGED <<s_pc, s_err>>
            ELSE /\ trace' = Append(trace, BandOp(FALSE, s_y, header \o band_data))
                 /\ s_pc' = "close"
                 /\ s_err' = TRUE
                 /\ UNCHANGED s_y
    /\ UNCHANGED <<img_1bit, rows_per_chunk, sock>>

\* the loop is over: s.sendall(b"\n\n\n" + GS_FULL_CUT)
SendCut ==
    /\ s_pc = "band"
    /\ ~(s_y < Height(img_1bit))
    /\ \E ok \in BOOLEAN :
        /\ trace' = Append(trace, WriteOp("cut", ok, LF3 \o GS_FULL_CUT))
        /\ s_err' = ~ok
    /\ s_pc' = "close"
    /\ UNCHANGED <<img_1bit, rows_per_chunk, s_y, sock>>

\* finally: s.close(); then return, or re-raise the pending error
SendClose ==
    /\ s_pc = "close"
    /\ trace' = Append(trace, SockOp("close", TRUE))
    /\ sock' = "closed"
    /\ s_pc' = IF s_err THEN "raised" ELSE "done"
    /\ UNCHANGED <<img_1bit, rows_per_chunk, s_y, s_err>>

\* the 1-bit images the model sends: w >= 1 columns, rows white, black or
\* with one black dot; and taller ones of a single column, for calls of
\* three bands and more
SendImages ==
    UNION {{[w |-> w, rows |-> r] : r \in [1..h -> BitRows(w)]} :
            w \in 1..MaxSendW, h \in 0..MaxSendH}
    \cup UNION {{[w |-> 1, rows |-> r] : r \in [1..h -> BitRows(1)]} :
                 h \in (MaxSendH + 1)..MaxSendTall}

SendInit ==
    /\ s_pc = "connect"
    /\ img_1bit \in SendImages
    /\ rows_per_chunk \in 1..MaxChunk
    /\ s_y = 0
    /\ sock = "none"
    /\ s_err = FALSE
    /\ trace = <<>>

SendIdle ==
    /\ s_pc = "idle"
    /\ img_1bit = NoImage
    /\ rows_per_chunk = 0
    /\ s_y = 0
    /\ sock = "none"
    /\ s_err = FALSE
    /\ trace = <<>>

(***************************************************************************)
(* The band header block of send_image_escpos on its own, for sizes the    *)
(* images above do not reach: values on both sides of 256 and of 65536.    *)
(***************************************************************************)
HeaderSizes ==
    {0, 1, 2, 64, 96, 255, 256, 257, 511, 512, 4095, 4096,
     65279, 65280, 65535, 65536, 65537}

\* xL, xH, yL, yH and header, from the locals bytes_per_row and band_h
HeaderCall ==
    /\ hd_out = <<>>
    /\ hd_in.bytes_per_row >= 0
    /\ hd_out' = BandHeader(hd_in.bytes_per_row, hd_in.band_h)
    /\ UNCHANGED hd_in

HeaderInit ==
    /\ hd_in \in [bytes_per_row : HeaderSizes, band_h : HeaderSizes]
    /\ hd_out = <<>>

HeaderIdle ==
    /\ hd_in = [bytes_per_row |-> -1, band_h |-> -1]
    /\ hd_out = <<>>


(***************************************************************************)
(* _trim_bands_tb called on its own, with the default thresholds and a     *)
(* max_ratio >= 0 of the caller's choice.                                  *)
(***************************************************************************)
TrimImages ==
    UNION {{[w |-> w, rows |-> r] : r \in [1..h -> BitRows(w)]} :
            w \in 1..MaxTrimW, h \in 1..MaxTrimH}

TrimRatios == {<<n, 4>> : n \in 0..MaxRatioNum}

TrimCall ==
    /\ t_pc = "call"
    /\ t_out' = _trim_bands_tb(t_img, 97, 100, 997, 1000, t_ratio[1], t_ratio[2])
    /\ t_box' = TrimBox(t_img, 97, 100, 997, 1000, t_ratio[1], t_ratio[2])
    /\ t_pc' = "done"
    /\ UNCHANGED <<t_img, t_ratio>>

\* _crop_whitespace_lr called on its own, on the same image
CropCall ==
    /\ t_pc = "call"
    /\ t_out' = _crop_whitespace_lr(t_img)
    /\ t_pc' = "cropped"
    /\ UNCHANGED <<t_img, t_ratio, t_box>>

TrimInit ==
    /\ t_pc = "call"
    /\ t_img \in TrimImages
    /\ t_ratio \in TrimRatios
    /\ t_box = <<0, 0>>
    /\ t_out = NoImage

TrimIdle ==
    /\ t_pc = "idle"
    /\ t_img = NoImage
    /\ t_ratio = <<0, 1>>
    /\ t_box = <<0, 0>>
    /\ t_out = NoImage

(***************************************************************************)
(* gen_maze: the choice of the start cell and the carving loop.  The grid  *)
(* sizes are scaled down from the code's (at least 16 rows and columns);   *)
(* rng.shuffle(out) lets any unvisited neighbour be neigh[0].              *)
(***************************************************************************)
\* n | 1
OrOne(n) == IF n % 2 = 0 THEN n + 1 ELSE n

dirs == {<<1, 0>>, <<-1, 0>>, <<0, 1>>, <<0, -1>>}

InGrid(r, c) == 0 <= r /\ r < m_dims[1] /\ 0 <= c /\ c < m_dims[2]

\* nbs(r, c), as the set of (nr, nc, dr, dc) the shuffle permutes
nbs(r, c) ==
    {<<r + 2 * d[1], c + 2 * d[2], d[1], d[2]>> : d \in
        {d \in dirs : /\ InGrid(r + 2 * d[1], c + 2 * d[2])
                      /\ <<r + 2 * d[1], c + 2 * d[2]>> \notin visited}}

\* r0 = int(rng.integers(0, rows) | 1), c0 likewise; stack = [(r0, c0)];
\* visited[r0, c0] = True raises IndexError when (r0, c0) is outside the grid
MazeStart ==
    /\ m_pc = "start"
    /\ \E r \in 0..(m_dims[1] - 1), c \in 0..(m_dims[2] - 1) :
        LET r0 == OrOne(r)
            c0 == OrOne(c)
        IN  /\ m_start' = <<r0, c0>>
            /\ stack' = <<<<r0, c0>>>>
            /\ IF InGrid(r0, c0)
               THEN /\ visited' = {<<r0, c0>>}
                    /\ grid' = {<<r0, c0>>}
                    /\ m_pc' = "carve"
               ELSE /\ m_pc' = "raised"
                    /\ UNCHANGED <<visited, grid>>
    /\ UNCHANGED m_dims

MazeStep_NoConnector ==
    /\ m_pc = "carve"
    /\ stack # <<>>
    /\ LET r == stack[Len(stack)][1]
           c == stack[Len(stack)][2]
           neigh == nbs(r, c)
       IN  IF neigh = {}
           THEN /\ stack' = SubSeq(stack, 1, Len(stack) - 1)
                /\ UNCHANGED <<grid, visited>>
           ELSE \E n \in neigh :
                /\ grid' = grid \cup {<<n[1], n[2]>>}
                /\ visited' = visited \cup {<<n[1], n[2]>>}
                /\ stack' = Append(stack, <<n[1], n[2]>>)
    /\ UNCHANGED <<m_pc, m_dims, m_start>>

\* one iteration of "while stack"
MazeStep ==
    /\ m_pc = "carve"
    /\ stack # <<>>
    /\ LET r == stack[Len(stack)][1]
           c == stack[Len(stack)][2]
           neigh == nbs(r, c)
       IN  IF neigh = {}
           THEN /\ stack' = SubSeq(stack, 1, Len(stack) - 1)
                /\ UNCHANGED <<grid, visited>>
           ELSE \E n \in neigh :
                /\ grid' = grid \cup {<<r + n[3], c + n[4]>>, <<n[1], n[2]>>}
                /\ visited' = visited \cup {<<n[1], n[2]>>}
                /\ stack' = Append(stack, <<n[1], n[2]>>)
    /\ UNCHANGED <<m_pc, m_dims, m_start>>

\* the stack is empty: the loop is left and the grid is rendered
MazeExit ==
    /\ m_pc = "carve"
    /\ stack = <<>>
    /\ m_pc' = "done"
    /\ UNCHANGED <<m_dims, m_start, grid, visited, stack>>

MazeInit ==
    /\ m_pc = "start"
    /\ m_dims \in (2..MaxMazeDim) \X (2..MaxMazeDim)
    /\ m_start = <<0, 0>>
    /\ grid = {}
    /\ visited = {}
    /\ stack = <<>>

MazeIdle ==
    /\ m_pc = "idle"
    /\ m_dims = <<0, 0>>
    /\ m_start = <<0, 0>>
    /\ grid = {}
    /\ visited = {}
    /\ stack = <<>>

(***************************************************************************)
(* generate_image, run twice ("A" and "B") on the same arguments, each run *)
(* in a process of its own.  np.random.default_rng(seed) is a generator    *)
(* whose draws are a function of the seed alone: the model uses a small    *)
(* congruential generator with RngStates states, a draw u standing for the *)
(* uniform value u/RngStates and, in rng.integers(lo, hi), for the integer *)
(* lo + (u * (hi - lo)) div RngStates.  Its constants are ones for which   *)
(* the seeds 0..MaxSeed give runs of every shape: no, one and two extra    *)
(* layers, a maze that is drawn and one that is not.  The random module's  *)
(* global generator is seeded from the operating system in each process:   *)
(* its draws are arbitrary.                                                *)
(* The image is the sequence of the operations that composed it; weights   *)
(* are in hundredths.                                                      *)
(***************************************************************************)
VARIANTS ==
    <<"noise", "lines", "shapes", "strokes", "plasma", "life", "halftone", "burst", "maze">>

WeightsBaseSource ==
    [v \in {VARIANTS[i] : i \in 1..Len(VARIANTS)} |->
        CASE v = "plasma" -> 36
          [] v \in {"lines", "shapes", "strokes", "noise", "life"} -> 10
          [] v = "halftone" -> 6
          [] v = "burst" -> 5
          [] v = "maze" -> 3]

WeightsAltSource ==
    [v \in {VARIANTS[i] : i \in 1..Len(VARIANTS)} |->
        CASE v = "plasma" -> 28
          [] v \in {"lines", "shapes"} -> 14
          [] v = "strokes" -> 12
          [] v = "noise" -> 10
          [] v = "life" -> 8
          [] v = "halftone" -> 7
          [] v = "burst" -> 5
          [] v = "maze" -> 2]

\* a table whose weights are all zero
WeightsZero == [v \in {VARIANTS[i] : i \in 1..Len(VARIANTS)} |-> 0]

\* the number of states of the generator
RngStates == 64

\* the generator's next state
Lcg(s) == (49 * s + 7) % RngStates

\* the state after n draws; the n-th draw is the value of that state
RECURSIVE Draw(_, _)
Draw(s, n) == IF n = 0 THEN s ELSE Lcg(Draw(s, n - 1))

\* weights.get(i, 1.0)
WeightOf(weights, i) == IF i \in DOMAIN weights THEN weights[i] ELSE 100

\* w[0] + ... + w[n-1]
RECURSIVE WeightSum(_, _, _)
WeightSum(items, weights, n) ==
    IF n = 0 THEN 0
    ELSE WeightSum(items, weights, n - 1) + WeightOf(weights, items[n])

\* rng.choice searching the cumulative weights from the wrong side
ChoiceIndex_SideLeft(u, items, weights) ==
    CHOOSE i \in 1..Len(items) :
        /\ WeightSum(items, weights, i) * RngStates >= u * WeightSum(items, weights, Len(items))
        /\ \A j \in 1..(i - 1) :
              WeightSum(items, weights, j) * RngStates < u * WeightSum(items, weights, Len(items))

\* rng.choice(len(items), p=w / w_sum) for the uniform draw u/RngStates: the first
\* index whose cumulative weight exceeds the draw
ChoiceIndex(u, items, weights) ==
    CHOOSE i \in 1..Len(items) :
        /\ WeightSum(items, weights, i) * RngStates > u * WeightSum(items, weights, Len(items))
        /\ \A j \in 1..(i - 1) :
              WeightSum(items, weights, j) * RngStates <= u * WeightSum(items, weights, Len(items))

\* whether weighted_pick takes a draw from rng
PickDraws(items, weights) ==
    IF WeightSum(items, weights, Len(items)) <= 0 THEN 0 ELSE 1

\* weighted_pick(rng, items, weights), u being the next draw of rng: the set
\* of items it can return (random.choice(items) can return any)
weighted_pick(u, items, weights) ==
    IF WeightSum(items, weights, Len(items)) <= 0
    THEN {items[i] : i \in 1..Len(items)}
    ELSE {items[ChoiceIndex(u, items, weights)]}

\* random_flip_rotate, from the three draws after state s
FlipRotate(s) ==
    [op |-> "flip_rotate",
     lr |-> Draw(s, 1) * 2 < RngStates, tb |-> Draw(s, 2) * 2 < RngStates,
     k |-> (Draw(s, 3) * 4) \div RngStates]

\* make_layer(v, seed) when it returns: every generator is a function of its
\* arguments
MakeLayer(v, seed) == [op |-> "layer", variant |-> v, seed |-> seed]

\* the r / mode / opacity block, from the two draws after state s
\* (thresholds multiply, screen in hundredths: 22, 70 the first time, 25, 70
\* the second)
Blend(s, multiply, screen) ==
    [op |-> "blend",
     mode |-> IF Draw(s, 1) * 100 < multiply * RngStates THEN "multiply"
              ELSE IF Draw(s, 1) * 100 < screen * RngStates THEN "screen"
              ELSE "add",
     opacity |-> Draw(s, 2)]

Run(r) == g_run[r]

\* LM_MIN_BASE_HEIGHT is unset in the modelled runs
MIN_BASE_HEIGHT == 900

Max(a, b) == IF a > b THEN a ELSE b

\* base_h = max(MIN_BASE_HEIGHT, int(target_width * rng.uniform(1.7, 2.3))),
\* u being the draw
BaseHeight(target_width, u) ==
    Max(MIN_BASE_HEIGHT,
        (target_width * (170 * RngStates + 60 * u)) \div (100 * RngStates))

\* gen_maze(seed, w, h) up to its start cell: <<rows, cols, r0, c0>>, from the
\* first four draws of default_rng(seed)
MazeGeometry(seed, w, h) ==
    LET s == seed % RngStates
        cols == Max(16, w \div (18 + (Draw(s, 1) * 10) \div RngStates))
        rows == Max(16, h \div (18 + (Draw(s, 2) * 10) \div RngStates))
    IN  <<rows, cols, OrOne((Draw(s, 3) * rows) \div RngStates),
                      OrOne((Draw(s, 4) * cols) \div RngStates)>>

\* visited[r0, c0] = True raises IndexError
MazeRaises(seed, w, h) ==
    LET m == MazeGeometry(seed, w, h) IN m[3] >= m[1] \/ m[4] >= m[2]

\* make_layer(v, s) raises: of the generators, gen_maze can
LayerRaises(v, seed, w, h) == v = "maze" /\ MazeRaises(seed, w, h)

\* rng = default_rng(seed); base_h; the base variant; make_layer; flip/rotate
GenBase(r) ==
    /\ Run(r).pc = "base"
    /\ LET s0 == g_in.seed % RngStates
           known == \E i \in 1..Len(VARIANTS) : VARIANTS[i] = g_in.variant
           n == 1 + (IF known THEN 0 ELSE PickDraws(VARIANTS, WEIGHTS_BASE))
           h == BaseHeight(g_in.target_width, Draw(s0, 1))
       IN  \E use \in (IF known THEN {g_in.variant}
                       ELSE weighted_pick(Draw(s0, 2), VARIANTS, WEIGHTS_BASE)) :
            IF LayerRaises(use, g_in.seed, g_in.target_width, h)
            THEN g_run' = [g_run EXCEPT ![r] =
                            [@ EXCEPT !.pc = "raised",
                                      !.rng = Draw(s0, n),
                                      !.base_h = h,
                                      !.use_variant = use]]
            ELSE g_run' = [g_run EXCEPT ![r] =
                            [@ EXCEPT !.pc = "layering",
                                      !.rng = Draw(s0, n + 3),
                                      !.base_h = h,
                                      !.use_variant = use,
                                      !.img = <<MakeLayer(use, g_in.seed),
                                                FlipRotate(Draw(s0, n))>>]]
    /\ UNCHANGED <<g_in, WEIGHTS_BASE, WEIGHTS_ALT>>

\* if rng.random() < 0.60: num_layers = 1 + (1 if rng.random() < 0.25 else 0)
GenLayering(r) ==
    /\ Run(r).pc = "layering"
    /\ LET s == Run(r).rng
       IN  IF Draw(s, 1) * 100 < 60 * RngStates
           THEN g_run' = [g_run EXCEPT ![r] =
                            [@ EXCEPT !.pc = "layer",
                                      !.rng = Draw(s, 2),
                                      !.num_layers =
                                          1 + (IF Draw(s, 2) * 100 < 25 * RngStates THEN 1 ELSE 0)]]
           ELSE g_run' = [g_run EXCEPT ![r] =
                            [@ EXCEPT !.pc = "edge", !.rng = Draw(s, 1)]]
    /\ UNCHANGED <<g_in, WEIGHTS_BASE, WEIGHTS_ALT>>

\* one iteration of "for _ in range(num_layers)"; the layer seed
\* (seed + rng.integers(1000, 9999)) & 0xFFFFFFFF of a seed this small is the
\* sum itself
GenLayer(r) ==
    /\ Run(r).pc = "layer"
    /\ LET s == Run(r).rng
           alt_choices == SelectSeq(VARIANTS, LAMBDA v : v # Run(r).use_variant)
           weights == [WEIGHTS_ALT EXCEPT !["plasma"] = 22]
           n == PickDraws(alt_choices, weights)
           layer_seed == g_in.seed + 1000 + ((Draw(s, n + 1) * 8999) \div RngStates)
       IN  \E alt \in weighted_pick(Draw(s, 1), alt_choices, weights) :
            IF LayerRaises(alt, layer_seed, g_in.target_width, Run(r).base_h)
            THEN g_run' = [g_run EXCEPT ![r] =
                            [@ EXCEPT !.pc = "raised", !.rng = Draw(s, n + 1)]]
            ELSE g_run' = [g_run EXCEPT ![r] =
                            [@ EXCEPT !.pc = IF Run(r).done_layers + 1 < Run(r).num_layers
                                             THEN "layer" ELSE "edge",
                                      !.rng = Draw(s, n + 8),
                                      !.done_layers = @ + 1,
                                      !.img = @ \o <<MakeLayer(alt, layer_seed),
                                                     FlipRotate(Draw(s, n + 1)),
                                                     Blend(Draw(s, n + 4), 22, 70),
                                                     Blend(Draw(s, n + 6), 25, 70)>>]]
    /\ UNCHANGED <<g_in, WEIGHTS_BASE, WEIGHTS_ALT>>

\* if rng.random() < 0.7: the edge mask of strength rng.uniform(0.35, 0.65)
GenEdge(r) ==
    /\ Run(r).pc = "edge"
    /\ LET s == Run(r).rng
       IN  IF Draw(s, 1) * 100 < 70 * RngStates
           THEN g_run' = [g_run EXCEPT ![r] =
                            [@ EXCEPT !.pc = "done",
                                      !.rng = Draw(s, 2),
                                      !.img = Append(@, [op |-> "edge_mask",
                                                         strength |-> Draw(s, 2)])]]
           ELSE g_run' = [g_run EXCEPT ![r] =
                            [@ EXCEPT !.pc = "done", !.rng = Draw(s, 1)]]
    /\ UNCHANGED <<g_in, WEIGHTS_BASE, WEIGHTS_ALT>>

RunStart ==
    [pc |-> "base", rng |-> 0, base_h |-> 0, use_variant |-> "",
     num_layers |-> 0, done_layers |-> 0, img |-> <<>>]

\* a registered variant that is plasma, one that is not, and an unknown name;
\* the weight tables of the source, and either table set to zero
GenInit ==
    /\ g_in \in [variant : {"plasma", "maze", "none"}, seed : 0..MaxSeed,
                 target_width : {PRINTER_DOTS}]
    /\ \/ WEIGHTS_BASE = WeightsBaseSource /\ WEIGHTS_ALT = WeightsAltSource
       \/ WEIGHTS_BASE = WeightsZero /\ WEIGHTS_ALT = WeightsAltSource
       \/ WEIGHTS_BASE = WeightsBaseSource /\ WEIGHTS_ALT = WeightsZero
    /\ g_run = [r \in {"A", "B"} |-> RunStart]

GenIdle ==
    /\ g_in = [variant |-> "", seed |-> 0, target_width |-> 0]
    /\ WEIGHTS_BASE = WeightsBaseSource
    /\ WEIGHTS_ALT = WeightsAltSource
    /\ g_run = [r \in {"A", "B"} |-> [RunStart EXCEPT !.pc = "idle"]]

(***************************************************************************)
(* weighted_pick called on its own: any list of items, empty or not, any   *)
(* weight map, with missing keys and negative weights, any state of rng.   *)
(***************************************************************************)
\* what makes the call raise: random.choice of an empty list (IndexError),
\* rng.choice given a negative probability (ValueError)
PickRaises(items, weights) ==
    \/ Len(items) = 0
    \/ /\ WeightSum(items, weights, Len(items)) > 0
       /\ \E i \in 1..Len(items) : WeightOf(weights, items[i]) < 0

PickCall ==
    /\ k_pc = "call"
    /\ IF PickRaises(k_items, k_weights)
       THEN k_pc' = "raised" /\ k_out' = ""
       ELSE /\ k_pc' = "returned"
            /\ k_out' \in weighted_pick(k_u, k_items, k_weights)
    /\ UNCHANGED <<k_items, k_weights, k_u>>

PickInit ==
    /\ k_pc = "call"
    /\ k_items \in UNION {[1..n -> {"plasma", "maze"}] : n \in 0..MaxPickLen}
    /\ k_weights \in UNION {[S -> (-1)..MaxPickWeight] : S \in SUBSET {"plasma", "maze"}}
    /\ k_u \in 0..(RngStates - 1)
    /\ k_out = ""

PickIdle ==
    /\ k_pc = "idle"
    /\ k_items = <<>>
    /\ k_weights = <<>>
    /\ k_u = 0
    /\ k_out = ""

(***************************************************************************)
(* The kiosk, love_machine.py: the session loop of main_sequence, the      *)
(* print worker threads show_generating_and_wait starts and                *)
(* run_print_script, which each worker runs.  The screens between two of   *)
(* the loop's assignments are one step; an ESC x3 reset can interrupt any  *)
(* screen.  Nothing bounds how long a worker's subprocess runs.            *)
(***************************************************************************)
\* to_caps(s) = (s or "").strip().upper(), on the strings of the model
to_caps(s) ==
    CASE s = "ana" -> "ANA"
      [] s = "bold" -> "BOLD"
      [] s = "open hearted" -> "OPEN HEARTED"
      [] s = "Realist" -> "REALIST"
      [] OTHER -> s

\* input_name_screen: name.strip() or "FRIEND"
input_name_screen(typed) == IF typed = "" THEN "FRIEND" ELSE typed

\* the trait and the archetype given under each other's option
PrintArgv_Swapped(participant_name, assigned_trait_title, archetype_title) ==
    <<"python3", "print_random_art.py", "--name", participant_name,
      "--trait", archetype_title, "--archetype", assigned_trait_title>>

\* the argument list run_print_script gives subprocess.run
PrintArgv(participant_name, assigned_trait_title, archetype_title) ==
    <<"python3", "print_random_art.py", "--name", participant_name,
      "--trait", assigned_trait_title, "--archetype", archetype_title>>

\* how subprocess.run(..., check=True) can end: exit status 0; a non-zero
\* exit status (CalledProcessError); the program could not be started
\* (OSError)
Outcomes == {"exit0", "nonzero", "nostart"}

Failures == {"nonzero", "nostart"}

NewSession == [name |-> "?", trait |-> "?", archetype |-> "?", screen |-> "title"]

At(screen) == [q_hist EXCEPT ![q_iter].screen = screen]

\* 1-3: hold_screen, acknowledgement_screen, init_screen
KioskTitle ==
    /\ q_pc = "title"
    /\ q_pc' = "name"
    /\ q_hist' = At("name")
    /\ UNCHANGED <<q_iter, name_caps, assigned_trait, archetype_caps, jobs, q_stdout>>

\* 4: name = input_name_screen(); name_caps = to_caps(name); the visitor
\* typed a name or nothing
KioskName ==
    /\ q_pc = "name"
    /\ \E typed \in {"ana", ""} :
        /\ name_caps' = to_caps(input_name_screen(typed))
        /\ q_hist' = [At("trait") EXCEPT ![q_iter].name = input_name_screen(typed)]
    /\ q_pc' = "trait"
    /\ UNCHANGED <<q_iter, assigned_trait, archetype_caps, jobs, q_stdout>>

\* 5-6: assigned_trait = to_caps(pick_random_trait()), one of two of
\* _RANDOM_TRAITS here; then the intro screens
KioskTrait ==
    /\ q_pc = "trait"
    /\ \E t \in {"bold", "open hearted"} :
        /\ assigned_trait' = to_caps(t)
        /\ q_hist' = [At("quiz") EXCEPT ![q_iter].trait = t]
    /\ q_pc' = "quiz"
    /\ UNCHANGED <<q_iter, name_caps, archetype_caps, jobs, q_stdout>>

\* archetype_title, blurb, pct = run_quiz_lm_style(...);
\* archetype_caps = to_caps(archetype_title)
KioskQuiz ==
    /\ q_pc = "quiz"
    /\ \E a \in {"Realist"} :
        /\ archetype_caps' = to_caps(a)
        /\ q_hist' = [At("task") EXCEPT ![q_iter].archetype = a]
    /\ q_pc' = "task"
    /\ UNCHANGED <<q_iter, name_caps, assigned_trait, jobs, q_stdout>>

\* the screens up to "Print now", then show_generating_and_wait down to its
\* loop: t = threading.Thread(target=_print_worker, daemon=True); t.start()
KioskPrint ==
    /\ q_pc = "task"
    /\ jobs' = Append(jobs, [iter |-> q_iter, state |-> "running",
                             argv |-> PrintArgv(name_caps, assigned_trait, archetype_caps)])
    /\ q_pc' = "generating"
    /\ q_hist' = At("generating")
    /\ UNCHANGED <<q_iter, name_caps, assigned_trait, archetype_caps, q_stdout>>

\* show_generating_and_wait returns on Enter, whatever the worker is doing
KioskEnter ==
    /\ q_pc = "generating"
    /\ q_pc' = "after"
    /\ q_hist' = At("after")
    /\ UNCHANGED <<q_iter, name_caps, assigned_trait, archetype_caps, jobs, q_stdout>>

\* the closing screens; "End. Loop again."
KioskEnd ==
    /\ q_pc = "after"
    /\ q_iter < MaxSessions
    /\ q_pc' = "title"
    /\ q_iter' = q_iter + 1
    /\ q_hist' = Append(q_hist, NewSession)
    /\ UNCHANGED <<name_caps, assigned_trait, archetype_caps, jobs, q_stdout>>

\* ESC x3 sets _RESET_REQUESTED, the next events() of the current screen
\* raises ResetToTitle; except ResetToTitle: ...; continue
KioskReset ==
    /\ q_pc \in {"title", "name", "trait", "quiz", "task", "generating", "after"}
    /\ q_iter < MaxSessions
    /\ q_stdout' = Append(q_stdout, "[RESET] Returning to start screen.")
    /\ q_pc' = "title"
    /\ q_iter' = q_iter + 1
    /\ q_hist' = Append(q_hist, NewSession)
    /\ UNCHANGED <<name_caps, assigned_trait, archetype_caps, jobs>>

\* run_print_script without its try/except, called from the session loop
PrintWorker_Uncaught(j) ==
    /\ jobs[j].state = "running"
    /\ \E outcome \in Outcomes :
        /\ jobs' = [jobs EXCEPT ![j].state = outcome]
        /\ q_pc' = IF outcome \in Failures THEN "crashed" ELSE q_pc
    /\ UNCHANGED <<q_iter, name_caps, assigned_trait, archetype_caps, q_hist, q_stdout>>

\* the worker thread j: run_print_script's subprocess.run ends, a failure
\* is caught and printed, the thread ends
PrintWorker(j) ==
    /\ jobs[j].state = "running"
    /\ \E outcome \in Outcomes :
        /\ jobs' = [jobs EXCEPT ![j].state = outcome]
        /\ q_stdout' = IF outcome \in Failures
                       THEN Append(q_stdout, "[ERROR] Print script failed")
                       ELSE q_stdout
    /\ UNCHANGED <<q_pc, q_iter, name_caps, assigned_trait, archetype_caps, q_hist>>

KioskInit ==
    /\ q_pc = "title"
    /\ q_iter = 1
    /\ name_caps = "?"
    /\ assigned_trait = "?"
    /\ archetype_caps = "?"
    /\ q_hist = <<NewSession>>
    /\ jobs = <<>>
    /\ q_stdout = <<>>

KioskIdle ==
    /\ q_pc = "idle"
    /\ q_iter = 0
    /\ name_caps = "?"
    /\ assigned_trait = "?"
    /\ archetype_caps = "?"
    /\ q_hist = <<>>
    /\ jobs = <<>>
    /\ q_stdout = <<>>

(***************************************************************************)
(* main of print_random_art.py, run twice ("A" and "B", each a process of  *)
(* its own, started the way run_print_script starts it) on command lines   *)
(* that may differ in the name.  main draws the variant from an unseeded   *)
(* generator and the seed from uuid4: the runs modelled are those whose    *)
(* draws come out the same, g_in holding them; the run ids differ in the   *)
(* bits above the seed's 32.  generate_image runs as modelled above.       *)
(***************************************************************************)
\* run_uuid, seed = new_run_seed(); print(...); generate_image is called
MainSeed(r) ==
    /\ x_run[r].pc = "start"
    /\ x_run' = [x_run EXCEPT ![r].pc = "generate",
                              ![r].variant = g_in.variant,
                              ![r].run_uuid = [hi |-> IF r = "A" THEN 1 ELSE 2,
                                               lo |-> g_in.seed],
                              ![r].seed = g_in.seed]
    /\ g_run' = [g_run EXCEPT ![r] = RunStart]
    /\ UNCHANGED <<g_in, WEIGHTS_BASE, WEIGHTS_ALT, log_file>>

\* generate_image raised: nothing in main catches it
MainRaise(r) ==
    /\ x_run[r].pc = "generate"
    /\ Run(r).pc = "raised"
    /\ x_run' = [x_run EXCEPT ![r].pc = "raised"]
    /\ UNCHANGED <<gvars, log_file>>

\* img_gray = generate_image(...); img_1bit = prep_for_printer(img_gray,
\* PRINTER_DOTS); img_1bit.save(PREVIEW_PNG)
MainPrep(r) ==
    /\ x_run[r].pc = "generate"
    /\ Run(r).pc = "done"
    /\ x_run' = [x_run EXCEPT ![r].pc = "log",
                              ![r].img_gray = Run(r).img,
                              ![r].img_1bit = [op |-> "prep_for_printer",
                                               img_gray |-> Run(r).img,
                                               max_width |-> PRINTER_DOTS]]
    /\ UNCHANGED <<gvars, log_file>>

\* with open(LOG_FILE, "a") as f:
\*     f.write(f"{datetime.now().isoformat()}  {run_uuid}  {variant}  {seed}\n")
MainLog(r) ==
    /\ x_run[r].pc = "log"
    /\ log_file' = Append(log_file, [timestamp |-> "now",
                                     run_uuid |-> x_run[r].run_uuid,
                                     variant |-> x_run[r].variant,
                                     seed |-> x_run[r].seed])
    /\ x_run' = [x_run EXCEPT ![r].pc = "send"]
    /\ UNCHANGED gvars

\* send_image_escpos(...) returns, or raises out of main
MainSend(r) ==
    /\ x_run[r].pc = "send"
    /\ \E ok \in BOOLEAN :
        x_run' = [x_run EXCEPT ![r].pc = IF ok THEN "done" ELSE "raised"]
    /\ UNCHANGED <<gvars, log_file>>

\* the command lines run_print_script builds; main reads none of argv
MainInit ==
    /\ \E na, nb \in {"ANA", "FRIEND"} :
        x_run = [r \in {"A", "B"} |->
                    [pc |-> "start",
                     argv |-> PrintArgv(IF r = "A" THEN na ELSE nb, "BOLD", "REALIST"),
                     variant |-> "", run_uuid |-> [hi |-> 0, lo |-> 0], seed |-> 0,
                     img_gray |-> <<>>, img_1bit |-> <<>>]]
    /\ log_file = <<>>
    /\ g_in \in [variant : {"plasma", "maze", "noise"}, seed : 0..MaxSeed,
                 target_width : {PRINTER_DOTS}]
    /\ WEIGHTS_BASE = WeightsBaseSource
    /\ WEIGHTS_ALT = WeightsAltSource
    /\ g_run = [r \in {"A", "B"} |-> [RunStart EXCEPT !.pc = "idle"]]

MainIdle ==
    /\ x_run = [r \in {"A", "B"} |->
                  [pc |-> "idle", argv |-> <<>>, variant |-> "",
                   run_uuid |-> [hi |-> 0, lo |-> 0], seed |-> 0,
                   img_gray |-> <<>>, img_1bit |-> <<>>]]
    /\ log_file = <<>>

vars == <<pvars, svars, tvars, mvars, gvars, kvars, qvars, xvars, hvars>>

\* runs of prep_for_printer
InitPrep ==
    PrepInit /\ SendIdle /\ TrimIdle /\ MazeIdle /\ GenIdle /\ PickIdle /\ KioskIdle /\ MainIdle /\ HeaderIdle

NextPrep ==
    \/ PrepLevel /\ UNCHANGED <<svars, tvars, mvars, gvars, kvars, qvars, xvars, hvars>>
    \/ PrepFirstPass /\ UNCHANGED <<svars, tvars, mvars, gvars, kvars, qvars, xvars, hvars>>
    \/ PrepSelfCheck /\ UNCHANGED <<svars, tvars, mvars, gvars, kvars, qvars, xvars, hvars>>
    \/ PrepMinHeight /\ UNCHANGED <<svars, tvars, mvars, gvars, kvars, qvars, xvars, hvars>>

SpecPrep == InitPrep /\ [][NextPrep]_vars

\* runs of send_image_escpos
InitSend ==
    SendInit /\ PrepIdle /\ TrimIdle /\ MazeIdle /\ GenIdle /\ PickIdle /\ KioskIdle /\ MainIdle /\ HeaderIdle

NextSend ==
    \/ SendConnect /\ UNCHANGED <<pvars, tvars, mvars, gvars, kvars, qvars, xvars, hvars>>
    \/ SendInitSeq /\ UNCHANGED <<pvars, tvars, mvars, gvars, kvars, qvars, xvars, hvars>>
    \/ SendBand /\ UNCHANGED <<pvars, tvars, mvars, gvars, kvars, qvars, xvars, hvars>>
    \/ SendCut /\ UNCHANGED <<pvars, tvars, mvars, gvars, kvars, qvars, xvars, hvars>>
    \/ SendClose /\ UNCHANGED <<pvars, tvars, mvars, gvars, kvars, qvars, xvars, hvars>>

SpecSend == InitSend /\ [][NextSend]_vars

\* the same runs, the interpreter carrying on: with the timeout set every
\* socket call returns or raises within sock_timeout seconds, and every sleep
\* ends
SpecSendLive == InitSend /\ [][NextSend]_vars /\ WF_vars(NextSend)

\* calls of _trim_bands_tb and of _crop_whitespace_lr
InitTrim ==
    TrimInit /\ PrepIdle /\ SendIdle /\ MazeIdle /\ GenIdle /\ PickIdle /\ KioskIdle /\ MainIdle /\ HeaderIdle

NextTrim ==
    \/ TrimCall /\ UNCHANGED <<pvars, svars, mvars, gvars, kvars, qvars, xvars, hvars>>
    \/ CropCall /\ UNCHANGED <<pvars, svars, mvars, gvars, kvars, qvars, xvars, hvars>>

SpecTrim == InitTrim /\ [][NextTrim]_vars

\* runs of gen_maze; the interpreter keeps running the loop
InitMaze ==
    MazeInit /\ PrepIdle /\ SendIdle /\ TrimIdle /\ GenIdle /\ PickIdle /\ KioskIdle /\ MainIdle /\ HeaderIdle

NextMaze ==
    \/ MazeStart /\ UNCHANGED <<pvars, svars, tvars, gvars, kvars, qvars, xvars, hvars>>
    \/ MazeStep /\ UNCHANGED <<pvars, svars, tvars, gvars, kvars, qvars, xvars, hvars>>
    \/ MazeExit /\ UNCHANGED <<pvars, svars, tvars, gvars, kvars, qvars, xvars, hvars>>

SpecMaze == InitMaze /\ [][NextMaze]_vars /\ WF_vars(NextMaze)

\* two runs of generate_image on the same arguments
InitGen ==
    GenInit /\ PrepIdle /\ SendIdle /\ TrimIdle /\ MazeIdle /\ PickIdle /\ KioskIdle /\ MainIdle /\ HeaderIdle

NextGen ==
    \/ \E r \in {"A", "B"} : GenBase(r) /\ UNCHANGED <<pvars, svars, tvars, mvars, kvars, qvars, xvars, hvars>>
    \/ \E r \in {"A", "B"} : GenLayering(r) /\ UNCHANGED <<pvars, svars, tvars, mvars, kvars, qvars, xvars, hvars>>
    \/ \E r \in {"A", "B"} : GenLayer(r) /\ UNCHANGED <<pvars, svars, tvars, mvars, kvars, qvars, xvars, hvars>>
    \/ \E r \in {"A", "B"} : GenEdge(r) /\ UNCHANGED <<pvars, svars, tvars, mvars, kvars, qvars, xvars, hvars>>

SpecGen == InitGen /\ [][NextGen]_vars

\* calls of weighted_pick
InitPick ==
    PickInit /\ PrepIdle /\ SendIdle /\ TrimIdle /\ MazeIdle /\ GenIdle /\ KioskIdle /\ MainIdle /\ HeaderIdle

NextPick == PickCall /\ UNCHANGED <<pvars, svars, tvars, mvars, gvars, qvars, xvars, hvars>>

SpecPick == InitPick /\ [][NextPick]_vars

\* the kiosk's main thread and its print workers
InitKiosk ==
    KioskInit /\ PrepIdle /\ SendIdle /\ TrimIdle /\ MazeIdle /\ GenIdle /\ PickIdle /\ MainIdle /\ HeaderIdle

NextKiosk ==
    \/ KioskTitle /\ UNCHANGED <<pvars, svars, tvars, mvars, gvars, kvars, xvars, hvars>>
    \/ KioskName /\ UNCHANGED <<pvars, svars, tvars, mvars, gvars, kvars, xvars, hvars>>
    \/ KioskTrait /\ UNCHANGED <<pvars, svars, tvars, mvars, gvars, kvars, xvars, hvars>>
    \/ KioskQuiz /\ UNCHANGED <<pvars, svars, tvars, mvars, gvars, kvars, xvars, hvars>>
    \/ KioskPrint /\ UNCHANGED <<pvars, svars, tvars, mvars, gvars, kvars, xvars, hvars>>
    \/ KioskEnter /\ UNCHANGED <<pvars, svars, tvars, mvars, gvars, kvars, xvars, hvars>>
    \/ KioskEnd /\ UNCHANGED <<pvars, svars, tvars, mvars, gvars, kvars, xvars, hvars>>
    \/ KioskReset /\ UNCHANGED <<pvars, svars, tvars, mvars, gvars, kvars, xvars, hvars>>
    \/ \E j \in 1..Len(jobs) :
          PrintWorker(j) /\ UNCHANGED <<pvars, svars, tvars, mvars, gvars, kvars, xvars, hvars>>

SpecKiosk == InitKiosk /\ [][NextKiosk]_vars

\* two runs of the print program
InitMain ==
    MainInit /\ PrepIdle /\ SendIdle /\ TrimIdle /\ MazeIdle /\ PickIdle /\ KioskIdle /\ HeaderIdle

NextMain ==
    \/ \E r \in {"A", "B"} : MainSeed(r) /\ UNCHANGED <<pvars, svars, tvars, mvars, kvars, qvars, hvars>>
    \/ \E r \in {"A", "B"} : MainRaise(r) /\ UNCHANGED <<pvars, svars, tvars, mvars, kvars, qvars, hvars>>
    \/ \E r \in {"A", "B"} : MainPrep(r) /\ UNCHANGED <<pvars, svars, tvars, mvars, kvars, qvars, hvars>>
    \/ \E r \in {"A", "B"} : MainLog(r) /\ UNCHANGED <<pvars, svars, tvars, mvars, kvars, qvars, hvars>>
    \/ \E r \in {"A", "B"} : MainSend(r) /\ UNCHANGED <<pvars, svars, tvars, mvars, kvars, qvars, hvars>>
    \/ \E r \in {"A", "B"} :
          GenBase(r) /\ UNCHANGED <<pvars, svars, tvars, mvars, kvars, qvars, xvars, hvars>>
    \/ \E r \in {"A", "B"} :
          GenLayering(r) /\ UNCHANGED <<pvars, svars, tvars, mvars, kvars, qvars, xvars, hvars>>
    \/ \E r \in {"A", "B"} :
          GenLayer(r) /\ UNCHANGED <<pvars, svars, tvars, mvars, kvars, qvars, xvars, hvars>>
    \/ \E r \in {"A", "B"} :
          GenEdge(r) /\ UNCHANGED <<pvars, svars, tvars, mvars, kvars, qvars, xvars, hvars>>

SpecMain == InitMain /\ [][NextMain]_vars

\* the band header block alone
InitHeader ==
    HeaderInit /\ PrepIdle /\ SendIdle /\ TrimIdle /\ MazeIdle /\ GenIdle /\ PickIdle /\ KioskIdle /\ MainIdle

NextHeader == HeaderCall /\ UNCHANGED <<pvars, svars, tvars, mvars, gvars, kvars, qvars, xvars>>

SpecHeader == InitHeader /\ [][NextHeader]_vars

\* C1: whatever the input and the path, the image prep_for_printer returns
\* has a width that is a multiple of 8.
C1_WidthMultipleOf8 == p_pc = "done" => img_1.w % 8 = 0

\* C2: the image prep_for_printer returns is at least MIN_FINAL_ROWS high,
\* and when it was shorter before the last step, that step only appended
\* white rows at the bottom, leaving the rows above as they were.
C2_MinHeight ==
    p_pc = "done" =>
        /\ Height(img_1) >= MIN_FINAL_ROWS
        /\ Height(pre_final) < MIN_FINAL_ROWS =>
              /\ img_1.w = pre_final.w
              /\ \A y \in 1..Height(pre_final) : img_1.rows[y] = pre_final.rows[y]
              /\ \A y \in (Height(pre_final) + 1)..Height(img_1) :
                    img_1.rows[y] = SolidRow(img_1.w, WHITE)

C2_Witness ==
    /\ p_pc = "done"
    /\ fell_back
    /\ Height(pre_final) < MIN_FINAL_ROWS
    /\ WhiteCount(pre_final) < PixelCount(pre_final)

(***************************************************************************)
(* Reading the wire back.                                                  *)
(***************************************************************************)
\* the calls made on the connection itself
ConnOps(tr) == SelectSeq(tr, LAMBDA e : e.op \in {"connect", "write", "close"})

\* a write of a raster band: it starts with 1D 76 30 00 and four size bytes
IsBandWrite(e) ==
    /\ e.op = "write"
    /\ Len(e.data) >= 8
    /\ SubSeq(e.data, 1, 4) = <<29, 118, 48, 0>>

IsInitWrite(e) == e.op = "write" /\ e.data = <<27, 64, 27, 50, 29, 66, 0>>
IsCutWrite(e) == e.op = "write" /\ e.data = <<10, 10, 10, 29, 86, 0>>

DeclaredByteWidth(e) == e.data[5] + 256 * e.data[6]
DeclaredHeight(e) == e.data[7] + 256 * e.data[8]
Payload(e) == SubSeq(e.data, 9, Len(e.data))

\* ceil(w / 8): the least n with 8 * n >= w
CeilDiv8(w) == CHOOSE n \in 0..w : 8 * n >= w /\ 8 * (n - 1) < w

\* the payloads of the bands sent among the first n entries, concatenated
RECURSIVE SentPayload(_, _)
SentPayload(tr, n) ==
    IF n = 0 THEN <<>>
    ELSE SentPayload(tr, n - 1)
         \o (IF IsBandWrite(tr[n]) /\ tr[n].ok THEN Payload(tr[n]) ELSE <<>>)

\* bit x (0-based, MSB first) of row r (0-based) of a payload of bpr bytes a row
UnpackBit(bytes, bpr, r, x) ==
    (bytes[r * bpr + (x \div 8) + 1] \div Pow2(7 - (x % 8))) % 2

\* C3: unpacking the payloads of the bands sent, MSB first, ceil(w/8) bytes a
\* row, gives back the rows sent so far of the source image (1 = black) in
\* the first w bits of each row and 0 in every padding bit; a completed call
\* has sent every row.
C3_RoundTrip ==
    LET bpr == CeilDiv8(img_1bit.w)
        pay == SentPayload(trace, Len(trace))
    IN  /\ Len(pay) = s_y * bpr
        /\ \A r \in 0..(s_y - 1) : \A x \in 0..(8 * bpr - 1) :
              UnpackBit(pay, bpr, r, x) =
                 IF x < img_1bit.w /\ img_1bit.rows[r + 1][x + 1] = BLACK
                 THEN 1 ELSE 0
        /\ s_pc = "done" => s_y = Height(img_1bit)

C3_Witness ==
    /\ s_pc = "done"
    /\ img_1bit.w = 9
    /\ Height(img_1bit) = 2
    /\ img_1bit.rows[2][9] = BLACK
    /\ img_1bit.rows[1][3] = BLACK

\* C4: every band written carries exactly (declared byte width) x (declared
\* band height) payload bytes, the declared byte width is ceil(w/8) and the
\* declared height is the number of rows of the band.
C4_BandLength ==
    \A i \in 1..Len(trace) :
        IsBandWrite(trace[i]) =>
            /\ Len(Payload(trace[i]))
                 = DeclaredByteWidth(trace[i]) * DeclaredHeight(trace[i])
            /\ DeclaredByteWidth(trace[i]) = CeilDiv8(img_1bit.w)
            /\ DeclaredHeight(trace[i])
                 = Min(rows_per_chunk, Height(img_1bit) - trace[i].row)

C4_Witness ==
    /\ s_pc = "done"
    /\ img_1bit.w % 8 # 0
    /\ \E i \in 1..Len(trace) :
        /\ IsBandWrite(trace[i])
        /\ DeclaredHeight(trace[i]) < rows_per_chunk
        /\ DeclaredByteWidth(trace[i]) = 2

\* C8: while no socket call has failed, the calls on the connection are a
\* prefix of: connect, one write of 1B 40 1B 32 1D 42 00, band writes each
\* starting 1D 76 30 00, one write of 0A 0A 0A 1D 56 00, close; a completed
\* call has made them all.
C8_ProtocolOrder ==
    LET ops == ConnOps(trace)
        n == Len(ops)
    IN  (\A i \in 1..Len(trace) : trace[i].ok) =>
            /\ \A i \in 1..n :
                /\ (ops[i].op = "connect") <=> (i = 1)
                /\ (i = 2) => IsInitWrite(ops[i])
                /\ (i > 2) =>
                     \/ /\ IsBandWrite(ops[i])
                        /\ \A j \in 3..(i - 1) : IsBandWrite(ops[j])
                     \/ /\ IsCutWrite(ops[i])
                        /\ \A j \in 3..(i - 1) : IsBandWrite(ops[j])
                     \/ /\ ops[i].op = "close"
                        /\ i = n
                        /\ IsCutWrite(ops[i - 1])
            /\ s_pc = "done" => (n >= 4 /\ ops[n].op = "close")

C8_Witness ==
    /\ s_pc = "done"
    /\ Len(SelectSeq(trace, IsBandWrite)) = 2
    /\ \A i \in 1..Len(trace) : trace[i].ok

\* C9: a failed socket call is followed by nothing but the close, the call
\* then ends by raising and never completes normally; there is at most one
\* connect and no row offset is written twice.
C9_NoRetry ==
    /\ Cardinality({i \in 1..Len(trace) : trace[i].op = "connect"}) <= 1
    /\ \A i, j \in 1..Len(trace) :
          (i < j /\ IsBandWrite(trace[i]) /\ IsBandWrite(trace[j]))
              => trace[i].row # trace[j].row
    /\ \A i \in 1..Len(trace) :
          ~trace[i].ok => \A j \in (i + 1)..Len(trace) : trace[j].op = "close"
    /\ (\E i \in 1..Len(trace) : ~trace[i].ok) => s_pc \in {"close", "raised"}

C9_Witness ==
    /\ s_pc = "raised"
    /\ \E i, j \in 1..Len(trace) :
        /\ i < j
        /\ IsBandWrite(trace[i]) /\ trace[i].ok
        /\ IsBandWrite(trace[j]) /\ ~trace[j].ok
    /\ trace[Len(trace)].op = "close"

\* floor(max_ratio * h): the n with n <= max_ratio * h < n + 1
FloorRatio(h, ratio) ==
    CHOOSE n \in 0..(h * ratio[1]) :
        n * ratio[2] <= h * ratio[1] /\ h * ratio[1] < (n + 1) * ratio[2]

\* C5: _trim_bands_tb removes at most floor(max_ratio * h) rows from the top
\* and at most floor(max_ratio * h) rows from the bottom of an image of
\* height h, however many rows are near-solid.
C5_TrimCap ==
    t_pc = "done" =>
        /\ t_out = Crop(t_img, 0, t_box[1], t_img.w, t_box[2])
        /\ t_box[1] <= FloorRatio(Height(t_img), t_ratio)
        /\ Height(t_img) - t_box[2] <= FloorRatio(Height(t_img), t_ratio)

C5_Witness ==
    /\ t_pc = "done"
    /\ WhiteCount(t_img) = PixelCount(t_img)
    /\ Height(t_img) = 5
    /\ t_box = <<1, 4>>
    /\ Height(t_out) = 3

\* the carved cells joined to the cells of S by 4-adjacent carved cells
RECURSIVE Flood(_)
Flood(S) ==
    LET more == {c \in grid \ S :
                    \E s \in S : \E d \in dirs : c = <<s[1] + d[1], s[2] + d[2]>>}
    IN  IF more = {} THEN S ELSE Flood(S \cup more)

\* C6: when the carving loop has ended, every carved cell is joined to the
\* start cell through 4-adjacent carved cells and every cell of the grid at
\* an even offset from the start cell was visited; and the loop, once
\* entered, ends.
C6_MazeConnected ==
    /\ [](m_pc = "done" =>
            /\ Flood({m_start}) = grid
            /\ \A r \in 0..(m_dims[1] - 1), c \in 0..(m_dims[2] - 1) :
                  ((r - m_start[1]) % 2 = 0 /\ (c - m_start[2]) % 2 = 0)
                      => <<r, c>> \in visited)
    /\ (m_pc = "carve") ~> (m_pc = "done")

C6_Witness ==
    /\ m_pc = "done"
    /\ m_dims = <<5, 4>>
    /\ Cardinality(visited) = 4
    /\ Cardinality(grid) = 7

\* C7: the start cell gen_maze chooses lies inside the grid and has odd
\* coordinates, so choosing it never raises.
C7_StartInside ==
    m_pc # "start" =>
        /\ InGrid(m_start[1], m_start[2])
        /\ m_start[1] % 2 = 1
        /\ m_start[2] % 2 = 1
        /\ m_pc # "raised"

\* C10: two runs of generate_image on the same variant, seed and width end
\* with the same image and the same base height, whatever the weight tables
\* hold, tables that sum to zero included.
C10_Deterministic ==
    (g_run["A"].pc = "done" /\ g_run["B"].pc = "done") =>
        /\ g_run["A"].img = g_run["B"].img
        /\ g_run["A"].base_h = g_run["B"].base_h

\* the weights of the items are all non-negative
NonNegative(items, weights) ==
    \A i \in 1..Len(items) : WeightOf(weights, items[i]) >= 0

\* the weights of the items are all zero
AllZero(items, weights) ==
    \A i \in 1..Len(items) : WeightOf(weights, items[i]) = 0

\* C11: for a non-empty item list and non-negative weights, weighted_pick
\* does not raise and returns a member of the list; when the weight sum is
\* positive the item returned has a positive weight; when every weight is
\* zero each position of the list can be the one returned, whatever the state
\* of rng (no position is favoured or excluded).
C11_WeightedPick ==
    (Len(k_items) > 0 /\ NonNegative(k_items, k_weights)) =>
        /\ k_pc \in {"call", "returned"}
        /\ k_pc = "returned" =>
              /\ \E i \in 1..Len(k_items) : k_out = k_items[i]
              /\ WeightSum(k_items, k_weights, Len(k_items)) > 0 =>
                    WeightOf(k_weights, k_out) > 0
        /\ (k_pc = "call" /\ AllZero(k_items, k_weights)) =>
              \A i \in 1..Len(k_items) :
                  ENABLED (PickCall /\ k_out' = k_items[i])

\* a call returned with a positive weight sum although the first item of a
\* three-item list has weight zero and the draw is the smallest there is
C11_Witness ==
    /\ k_pc = "returned"
    /\ Len(k_items) = 3
    /\ NonNegative(k_items, k_weights)
    /\ WeightOf(k_weights, k_items[1]) = 0
    /\ WeightSum(k_items, k_weights, 3) > 0
    /\ k_u = 0

Registered(v) == \E i \in 1..Len(VARIANTS) : VARIANTS[i] = v

SourceTables == WEIGHTS_BASE = WeightsBaseSource /\ WEIGHTS_ALT = WeightsAltSource

\* C12: with the weight tables of the source, a run of generate_image on a
\* name that is not registered never raises, carries on with a registered
\* base variant, and every layer it generates is of a registered variant.
C12_UnknownStyle ==
    (SourceTables /\ ~Registered(g_in.variant)) =>
        \A r \in {"A", "B"} :
            Run(r).pc \notin {"idle", "base"} =>
                /\ Run(r).pc # "raised"
                /\ Registered(Run(r).use_variant)
                /\ \A i \in 1..Len(Run(r).img) :
                      Run(r).img[i].op = "layer" => Registered(Run(r).img[i].variant)

\* C13: the timeout is set on the socket before connect is attempted; when
\* connect fails the call ends there by raising, nothing having been written;
\* and a call always comes to an end (it returns or raises).
C13_TimeoutBeforeConnect ==
    /\ [](\A i \in 1..Len(trace) :
            trace[i].op = "connect" =>
                /\ \E j \in 1..(i - 1) : trace[j].op = "settimeout"
                /\ ~trace[i].ok => (s_pc = "raised" /\ i = Len(trace)))
    /\ [](s_pc = "raised" /\ (\E i \in 1..Len(trace) : trace[i].op = "connect" /\ ~trace[i].ok)
            => \A i \in 1..Len(trace) : trace[i].op # "write")
    /\ (s_pc = "connect" ~> s_pc \in {"raised", "done"})

\* connect failed on an image that has rows to send
C13_Witness ==
    /\ s_pc = "raised"
    /\ Height(img_1bit) > 0
    /\ trace = <<SockOp("settimeout", TRUE), SockOp("connect", FALSE)>>

\* the workers started in iteration it of the session loop
JobsOf(it) == {j \in 1..Len(jobs) : jobs[j].iter = it}

\* C14: when a print job fails (the script exits non-zero or cannot be
\* started) the failure is printed and the session is where it was, in the
\* same iteration; and from the generating screen of a session whose job has
\* failed, Enter still leads on to the screens that follow.
C14_PrintFailureNotFatal ==
    /\ [][\A j \in 1..Len(jobs) :
            (jobs[j].state = "running" /\ jobs'[j].state \in Failures) =>
                /\ q_pc' = q_pc
                /\ q_iter' = q_iter
                /\ q_stdout' = Append(q_stdout, "[ERROR] Print script failed")]_vars
    /\ [](q_pc \in {"idle", "title", "name", "trait", "quiz", "task", "generating", "after"})
    /\ []((q_pc = "generating" /\ \E j \in JobsOf(q_iter) : jobs[j].state \in Failures)
            => ENABLED (KioskEnter /\ q_pc' = "after" /\ q_iter' = q_iter))

\* the session went on to the closing screens after its print job failed
C14_Witness ==
    /\ q_pc = "after"
    /\ \E j \in JobsOf(q_iter) : jobs[j].state = "nonzero"

\* C15: at any time at most one print worker is running.
C15_OneJobInFlight ==
    Cardinality({j \in 1..Len(jobs) : jobs[j].state = "running"}) <= 1

\* the argument list that carries the strings the screens of iteration it
\* returned
ArgvOf(it) ==
    <<"python3", "print_random_art.py",
      "--name", to_caps(q_hist[it].name),
      "--trait", to_caps(q_hist[it].trait),
      "--archetype", to_caps(q_hist[it].archetype)>>

\* C16 as stated: every iteration of the session loop that is over has
\* launched the print script exactly once, with --name, --trait and
\* --archetype carrying the iteration's strings.
C16_OncePerIteration ==
    \A it \in 1..(q_iter - 1) :
        /\ Cardinality(JobsOf(it)) = 1
        /\ \A j \in JobsOf(it) : jobs[j].argv = ArgvOf(it)

\* C16 amended: an iteration launches the print script at most once, exactly
\* once when it has reached show_generating_and_wait and not at all when a
\* reset ended it before; the launch carries the iteration's strings.
C16_OncePerCompletedIteration ==
    \A it \in 1..q_iter :
        /\ Cardinality(JobsOf(it)) =
              (IF q_hist[it].screen \in {"generating", "after"} THEN 1 ELSE 0)
        /\ \A j \in JobsOf(it) : jobs[j].argv = ArgvOf(it)

\* a second iteration has launched its own job, with a name and a trait that
\* differ from the first iteration's
C16_Witness ==
    /\ q_iter = 2
    /\ q_hist[2].screen = "after"
    /\ Cardinality(JobsOf(1)) = 1
    /\ q_hist[1].name # q_hist[2].name
    /\ q_hist[1].trait # q_hist[2].trait

\* the lines of the log file that carry the run id of run r
LinesOf(r) == {i \in 1..Len(log_file) : log_file[i].run_uuid = x_run[r].run_uuid}

\* C17: a run of the print program that has ended has appended exactly one
\* line to the log file, and the line holds the timestamp, the run id, the
\* style name, the seed and the name, trait and archetype of its command line.
C17_LogLine ==
    \A r \in {"A", "B"} :
        x_run[r].pc \in {"done", "raised"} =>
            /\ Cardinality(LinesOf(r)) = 1
            /\ \A i \in LinesOf(r) :
                  /\ {"timestamp", "run_uuid", "variant", "seed",
                      "name", "trait", "archetype"} \subseteq DOMAIN log_file[i]
                  /\ log_file[i].variant = x_run[r].variant
                  /\ log_file[i].seed = x_run[r].seed
                  /\ log_file[i].name = x_run[r].argv[4]
                  /\ log_file[i].trait = x_run[r].argv[6]
                  /\ log_file[i].archetype = x_run[r].argv[8]

\* C18: two runs with the same seed, style and width whose command lines
\* differ in the name alone have prepared images that differ (in the header
\* pixels), made from the same art.
C18_NameOnlyHeader ==
    (/\ x_run["A"].pc \in {"log", "send", "done"}
     /\ x_run["B"].pc \in {"log", "send", "done"}
     /\ x_run["A"].argv[4] # x_run["B"].argv[4]) =>
        /\ x_run["A"].img_1bit # x_run["B"].img_1bit
        /\ x_run["A"].img_gray = x_run["B"].img_gray

\* C19: the fallback of prep_for_printer runs only at the self-check and only
\* when the padded image is more than 98% or less than 2% white; it replaces
\* the image by a fresh dithering of the levelled image, trimmed and cropped
\* once, and goes on to the minimum-height step without checking the result;
\* after it the image changes only by that step, and the call returns an
\* image.
C19_FallbackOnce ==
    /\ [][(p_pc = "check" /\ ~NearUniform(img_1)) =>
            (img_1' = img_1 /\ ~fell_back')]_vars
    /\ [][(p_pc = "check" /\ NearUniform(img_1)) =>
            /\ p_pc' = "minheight"
            /\ fell_back'
            /\ \E d \in Dither(img_gray) : img_1' = _crop_whitespace_lr(TrimDefault(d))]_vars
    /\ [][(p_pc # "check") => (fell_back' = fell_back)]_vars
    /\ [][fell_back => (p_pc = "minheight" /\ p_pc' = "done"
                          /\ img_1' = EnforceMinHeight(img_1))]_vars
    /\ [](p_pc = "done" => (img_1.w >= 1 /\ Height(img_1) >= 1))

\* the call returned the fallback's image although that image is itself
\* nearly uniform
C19_Witness ==
    /\ p_pc = "done"
    /\ fell_back
    /\ NearUniform(pre_final)
    /\ p_in.margin_px > 0

\* rows a..b and columns c..d of img exist and are entirely white
WhiteBox(img, a, b, c, d) ==
    /\ b <= Height(img)
    /\ d <= img.w
    /\ \A y \in a..b : \A x \in c..d : img.rows[y][x] = WHITE

\* C20: the image prep_for_printer returns has the white margins baked in on
\* every path: its first margin_tb rows, its first margin_px columns and its
\* last margin_px columns are entirely white.
C20_MarginsBakedIn ==
    p_pc = "done" =>
        /\ WhiteBox(img_1, 1, p_in.margin_tb, 1, img_1.w)
        /\ WhiteBox(img_1, 1, Height(img_1), 1, p_in.margin_px)
        /\ img_1.w >= p_in.margin_px
        /\ WhiteBox(img_1, 1, Height(img_1), img_1.w - p_in.margin_px + 1, img_1.w)

\* C21: in the band header the four bytes after 1D 76 30 00 are each in
\* 0..255; when bytes_per_row is below 65536 the first two give it back as
\* xL + 256 * xH, and when band_h is below 65536 the last two give it back as
\* yL + 256 * yH.
C21_HeaderLittleEndian ==
    hd_out # <<>> =>
        /\ Len(hd_out) = 8
        /\ SubSeq(hd_out, 1, 4) = <<29, 118, 48, 0>>
        /\ \A i \in 5..8 : hd_out[i] \in 0..255
        /\ hd_in.bytes_per_row < 65536 =>
              hd_out[5] + 256 * hd_out[6] = hd_in.bytes_per_row
        /\ (hd_in.band_h >= 0 /\ hd_in.band_h < 65536) =>
              hd_out[7] + 256 * hd_out[8] = hd_in.band_h

\* a header whose two size fields both need their high byte, with different
\* low bytes
C21_Witness ==
    /\ hd_out # <<>>
    /\ hd_in.bytes_per_row = 257
    /\ hd_in.band_h = 4095
    /\ hd_out[6] = 1
    /\ hd_out[8] = 15

\* the positions in the trace of the band writes, in order
BandIdx(tr) == SelectSeq([i \in 1..Len(tr) |-> i], LAMBDA i : IsBandWrite(tr[i]))

\* ceil(h / n)
CeilDiv(h, n) == (h + n - 1) \div n

\* C22: the bands are written top to bottom, the k-th starting at row
\* (k - 1) * rows_per_chunk; each has rows_per_chunk rows, except that the
\* band reaching the bottom has the 1..rows_per_chunk rows that are left, and
\* carries that many rows of payload; a completed call has written
\* ceil(h / rows_per_chunk) bands, and every row is in exactly one of them.
C22_BandsPartition ==
    LET idx == BandIdx(trace)
        h == Height(img_1bit)
        n == rows_per_chunk
        First(k) == trace[idx[k]].row
        Rows(k) == DeclaredHeight(trace[idx[k]])
    IN  /\ \A k \in 1..Len(idx) :
            /\ First(k) = (k - 1) * n
            /\ First(k) < h
            /\ Rows(k) \in 1..n
            /\ Rows(k) < n => First(k) + Rows(k) = h
            /\ First(k) + Rows(k) <= h
            /\ Len(Payload(trace[idx[k]])) = Rows(k) * BytesPerRow(img_1bit.w)
        /\ s_pc = "done" =>
            /\ Len(idx) = CeilDiv(h, n)
            /\ \A y \in 0..(h - 1) :
                  Cardinality({k \in 1..Len(idx) :
                                 First(k) <= y /\ y < First(k) + Rows(k)}) = 1

\* a completed call of three bands, two full and a shorter last one
C22_Witness ==
    /\ s_pc = "done"
    /\ Height(img_1bit) = 5
    /\ rows_per_chunk = 2
    /\ Len(BandIdx(trace)) = 3
    /\ DeclaredHeight(trace[BandIdx(trace)[3]]) = 1

\* the operations of kind op that composed the image of run r
OpsOf(r, op) == SelectSeq(Run(r).img, LAMBDA o : o.op = op)

\* the variants of the layers of run r, the base first
LayerVariants(r) == [i \in 1..Len(OpsOf(r, "layer")) |-> OpsOf(r, "layer")[i].variant]

\* C23: when generate_image returns an image made with layering, it has
\* between 1 and 3 extra layers and blend_layers was called once for each:
\* the number of blends equals the number of extra layers.
C23_OneBlendPerLayer ==
    \A r \in {"A", "B"} :
        Run(r).pc = "done" =>
            LET extra == Len(OpsOf(r, "layer")) - 1
            IN  /\ extra = Run(r).done_layers
                /\ Run(r).num_layers > 0 => extra \in 1..3
                /\ Len(OpsOf(r, "blend")) = extra

\* C24: every extra layer's variant differs from the variant of the layer
\* chosen just before it, the base variant for the first extra layer.
C24_NoImmediateRepeat ==
    \A r \in {"A", "B"} :
        \A i \in 2..Len(LayerVariants(r)) :
            LayerVariants(r)[i] # LayerVariants(r)[i - 1]

\* row y (0-based) of img is near-solid: at least 97% of its pixels black or
\* at least 99.7% of them white
NearSolid(img, y) ==
    LET black == Cardinality({x \in 1..img.w : img.rows[y + 1][x] = BLACK})
        white == Cardinality({x \in 1..img.w : img.rows[y + 1][x] = WHITE})
    IN  black * 100 >= 97 * img.w \/ white * 1000 >= 997 * img.w

\* the number of near-solid rows at the top of img before the first row that
\* is not, and the same at the bottom
LeadSolid(img) ==
    CHOOSE n \in 0..Height(img) :
        /\ \A y \in 0..(n - 1) : NearSolid(img, y)
        /\ n < Height(img) => ~NearSolid(img, n)

TrailSolid(img) ==
    CHOOSE n \in 0..Height(img) :
        /\ \A y \in (Height(img) - n)..(Height(img) - 1) : NearSolid(img, y)
        /\ n < Height(img) => ~NearSolid(img, Height(img) - n - 1)

\* C25: _trim_bands_tb returns the rows between a run removed at the top and
\* a run removed at the bottom; every removed row is near-solid black or
\* near-solid white; the top run is the near-solid rows before the first row
\* that is not near-solid, the bottom run those after the last such row, each
\* cut short at floor(max_ratio * h) rows; and when the two runs meet or cross
\* the image is returned as it was.
C25_TrimRuns ==
    t_pc = "done" =>
        LET h == Height(t_img)
            a == Min(LeadSolid(t_img), FloorRatio(h, t_ratio))
            b == Min(TrailSolid(t_img), FloorRatio(h, t_ratio))
        IN  /\ t_out = Crop(t_img, 0, t_box[1], t_img.w, t_box[2])
            /\ \A y \in 0..(h - 1) :
                  (y < t_box[1] \/ y >= t_box[2]) => NearSolid(t_img, y)
            /\ t_box[1] <= LeadSolid(t_img)
            /\ h - t_box[2] <= TrailSolid(t_img)
            /\ IF a + b >= h
               THEN t_box = <<0, h>> /\ t_out = t_img
               ELSE t_box = <<a, h - b>>

\* a call that removed a row at each end and kept a near-solid row lying
\* between two rows that are not
C25_Witness ==
    /\ t_pc = "done"
    /\ Height(t_img) = 5
    /\ t_box = <<1, 4>>
    /\ ~NearSolid(t_img, 1)
    /\ NearSolid(t_img, 2)
    /\ ~NearSolid(t_img, 3)
    /\ t_img.rows[5][1] = BLACK

\* a call whose two runs cross: every row is near-solid and the image comes
\* back whole
C25_CrossWitness ==
    /\ t_pc = "done"
    /\ Height(t_img) = 4
    /\ LeadSolid(t_img) = 4
    /\ FloorRatio(4, t_ratio) >= 2
    /\ t_out = t_img

\* column x (1-based) of img has a pixel that is not white
HasInk(img, x) == \E y \in 1..Height(img) : img.rows[y][x] # WHITE

\* C26: for an image with at least one non-white pixel, the image
\* _crop_whitespace_lr returns has a non-white pixel in its leftmost and in
\* its rightmost column and as many rows as the argument.
C26_CropToInk ==
    (t_pc = "cropped" /\ \E x \in 1..t_img.w : HasInk(t_img, x)) =>
        /\ Height(t_out) = Height(t_img)
        /\ t_out.w >= 1
        /\ HasInk(t_out, 1)
        /\ HasInk(t_out, t_out.w)

\* the number of black pixels of the rows sent by the band write e
BlackSent(e) ==
    LET rows == SubSeq(img_1bit.rows, e.row + 1, e.row + DeclaredHeight(e))
    IN  Cardinality({p \in (1..Len(rows)) \X (1..img_1bit.w) : rows[p[1]][p[2]] = BLACK})

\* the number of pixels of those rows
PixelsSent(e) == DeclaredHeight(e) * img_1bit.w

\* C27: every band write that succeeds is followed by exactly one sleep
\* before the next write, and there is no other sleep; the pause is
\* base_sleep plus 0.06 s times the band's black fraction: base_sleep for an
\* all-white band, base_sleep + 0.06 s, the longest, for an all-black band,
\* and never shorter for a band that is darker than another.
C27_AdaptivePause ==
    /\ \A i \in 1..Len(trace) :
        (IsBandWrite(trace[i]) /\ trace[i].ok) =>
            /\ i + 1 <= Len(trace)
            /\ trace[i + 1].op = "sleep"
            /\ i + 2 <= Len(trace) => trace[i + 2].op = "write"
            /\ LET pause == trace[i + 1].pause
                   black == BlackSent(trace[i])
                   total == PixelsSent(trace[i])
               IN  /\ (pause - 15000) * total <= 60000 * black
                   /\ 60000 * black < (pause - 15000 + 1) * total
                   /\ black = 0 <=> pause = 15000
                   /\ black = total <=> pause = 75000
                   /\ pause \in 15000..75000
    /\ \A i \in 1..Len(trace) :
        trace[i].op = "sleep" =>
            i > 1 /\ IsBandWrite(trace[i - 1]) /\ trace[i - 1].ok
    /\ \A i, j \in 1..Len(trace) :
        (/\ IsBandWrite(trace[i]) /\ trace[i].ok
         /\ IsBandWrite(trace[j]) /\ trace[j].ok
         /\ BlackSent(trace[i]) * PixelsSent(trace[j])
               <= BlackSent(trace[j]) * PixelsSent(trace[i]))
            => trace[i + 1].pause <= trace[j + 1].pause

\* a completed call whose three bands were one white, one half black and one
\* black, with a different pause after each
C27_Witness ==
    /\ s_pc = "done"
    /\ \E i, j, k \in 1..Len(trace) :
        /\ trace[i].op = "sleep" /\ trace[i].pause = 15000
        /\ trace[j].op = "sleep" /\ trace[j].pause = 45000
        /\ trace[k].op = "sleep" /\ trace[k].pause = 75000

\* C28: however send_image_escpos ends, by returning or by raising, the
\* socket it opened has been closed.
C28_SocketClosed ==
    s_pc \in {"done", "raised"} =>
        /\ sock = "closed"
        /\ trace[Len(trace)].op = "close"

\* C29: the feed and cut command is written only after the init write and
\* the band writes of every row of the image have succeeded, and no write
\* follows a write that failed.
C29_CutAfterAllBands ==
    /\ \A i \in 1..Len(trace) :
        IsCutWrite(trace[i]) =>
            /\ \A j \in 1..(i - 1) : trace[j].ok
            /\ \E j \in 1..(i - 1) : IsInitWrite(trace[j])
            /\ \A y \in 0..(Height(img_1bit) - 1) :
                  \E j \in 1..(i - 1) :
                      /\ IsBandWrite(trace[j])
                      /\ trace[j].row <= y
                      /\ y < trace[j].row + DeclaredHeight(trace[j])
    /\ \A i \in 1..Len(trace) :
        (trace[i].op = "write" /\ ~trace[i].ok) =>
            \A j \in (i + 1)..Len(trace) : trace[j].op # "write"

\* a call that ended by raising after its second band write failed: the
\* third band and the cut were never written
C29_Witness ==
    /\ s_pc = "raised"
    /\ Height(img_1bit) = 5
    /\ rows_per_chunk = 2
    /\ \E i \in 1..Len(trace) :
        IsBandWrite(trace[i]) /\ ~trace[i].ok /\ trace[i].row = 2
    /\ \A i \in 1..Len(trace) : ~IsCutWrite(trace[i])
    /\ sock = "closed"

\* C30: every call of send_image_escpos ends, by returning or by raising,
\* whatever the height h >= 0 and rows_per_chunk >= 1: each iteration of the
\* loop moves y up, never past h, the loop is left for the cut only with
\* y = h, and for h = 0 the only writes are the init and the feed and cut.
C30_Terminates ==
    /\ [][(s_pc = "band" /\ s_pc' = "band") =>
            (s_y' > s_y /\ s_y' <= Height(img_1bit))]_vars
    /\ [][(s_pc = "band" /\ s_pc' = "close" /\ ~s_err') => s_y = Height(img_1bit)]_vars
    /\ [](s_pc = "done" =>
            /\ s_y = Height(img_1bit)
            /\ Height(img_1bit) = 0 =>
                  SelectSeq(trace, LAMBDA e : e.op = "write")
                      = <<WriteOp("init", TRUE, <<27, 64, 27, 50, 29, 66, 0>>),
                          WriteOp("cut", TRUE, <<10, 10, 10, 29, 86, 0>>)>>)
    /\ (s_pc = "connect") ~> (s_pc \in {"done", "raised"})

\* the call on an image without rows has returned
C30_Witness ==
    /\ s_pc = "done"
    /\ Height(img_1bit) = 0
    /\ s_y = 0
    /\ Len(trace) = 5

====
